---- MODULE Spec2Model ----
(***************************************************************************)
(* Model of the api-gateway-go HTTP front door: process startup (main),    *)
(* the route table, the intake handler CreateReel, the status handler      *)
(* GetRunStatus, the health handler and the SQS publisher.                 *)
(***************************************************************************)
EXTENDS Integers, Sequences, FiniteSets, TLC

(***************************************************************************)
(* Bounds of the model.                                                    *)
(***************************************************************************)
\* number of requests the server handles in one behaviour
MaxRequests == 2
\* number of distinct outcomes of the random source read by uuid.New()
MaxRand == 2
\* number of direct calls of a package function in one behaviour
MaxCalls == 2

None == "none"

VARIABLES
    pc,           \* position of main: the startup step to take next
    environ,      \* the environment variables of the process
    awsConfigOk,  \* whether the AWS SDK can load its default configuration
    store,        \* the remote secret store: reachable or not, and its entries
    startupLog,   \* the log lines written by the secret loader
    secrets,      \* the secret bundle main holds
    envConfig,    \* the environment configuration main holds
    publisher,    \* the package-level publisher of the handlers
    sqsUp,        \* whether a SendMessage to the queue succeeds right now
    queue,        \* the messages the queue has accepted
    sendAttempts, \* number of SendMessage calls made
    served,       \* number of requests handled
    last,         \* the request handled last, with its response, what the
                  \* handler logged and the state of the queue service then
    issued,       \* the run identifiers returned in 202 responses, in order
    minted,       \* the run identifiers minted by uuid.New(), in order
    call,         \* the last direct call of a package function: its
                  \* arguments and what it returned
    ncalls,       \* number of direct calls made
    inflight,     \* the goroutines running a handler or a publish, each
                  \* with its position and its local variables
    script        \* a run of scripts/deploy-prod.sh: its position, its
                  \* variables, the commands it ran and its exit status

vars == <<pc, environ, awsConfigOk, store, startupLog, secrets, envConfig, publisher, sqsUp, queue,
          sendAttempts, served, last, issued, minted, call, ncalls, inflight, script>>

(***************************************************************************)
(* Text helpers: strings the handlers slice are sequences of characters.   *)
(***************************************************************************)
RunsPrefix == <<"/", "r", "u", "n", "s", "/">>
ReelsPath  == <<"/", "r", "e", "e", "l", "s">>
HealthPath == <<"/", "h", "e", "a", "l", "t", "h">>

HexDigits == <<"0","1","2","3","4","5","6","7","8","9","a","b","c","d","e","f">>

\* two lower-case hex digits of one byte
HexByte(b) == <<HexDigits[(b \div 16) + 1], HexDigits[(b % 16) + 1]>>

RECURSIVE HexBytes(_)
HexBytes(bs) == IF bs = <<>> THEN <<>> ELSE HexByte(Head(bs)) \o HexBytes(Tail(bs))

(***************************************************************************)
(* uuid.New().String(): sixteen random bytes, the version nibble of byte 6 *)
(* forced to 4 and the variant bits of byte 8 forced to 10, rendered as    *)
(* 8-4-4-4-12 hex digits.  Byte positions are 1-based here.                *)
(***************************************************************************)
\* the byte patterns the random source can deliver in this model
RandByte(k) == (k * 165 + 90) % 256
RandomSources == { [i \in 1..16 |-> RandByte(k)] : k \in 1..MaxRand }

UUIDNew(rnd) ==
    [i \in 1..16 |-> IF i = 7 THEN (rnd[i] % 16) + 64
                     ELSE IF i = 9 THEN (rnd[i] % 64) + 128
                     ELSE rnd[i]]

UUIDString(u) ==
    HexBytes(SubSeq(u, 1, 4)) \o <<"-">> \o HexBytes(SubSeq(u, 5, 6)) \o <<"-">>
      \o HexBytes(SubSeq(u, 7, 8)) \o <<"-">> \o HexBytes(SubSeq(u, 9, 10)) \o <<"-">>
      \o HexBytes(SubSeq(u, 11, 16))

(***************************************************************************)
(* Request bodies.  A body is a sequence of whitespace-separated lexical   *)
(* items of JSON text; the decoder reads the first JSON value of the       *)
(* stream and unmarshals it into a CreateReelRequest.                      *)
(*   "{" "}" ","   punctuation of an object                                *)
(*   "pid_str"     the member  "projectId":"proj_789"                      *)
(*   "pid_num"     the member  "projectId":123      (wrong type)           *)
(*   "extra"       the member  "unknown":1          (no such field)        *)
(*   "null"        the literal null                                        *)
(*   "str"         a string literal                                        *)
(*   "junk"        text that starts no JSON value, e.g.  invalid           *)
(***************************************************************************)
Members == {"pid_str", "pid_num", "extra"}

Bodies ==
    { <<>>,
      <<"junk">>,
      <<"null">>,
      <<"str">>,
      <<"{", "}">>,
      <<"{", "pid_str", "}">>,
      <<"{", "pid_num", "}">>,
      <<"{", "pid_str", ",", "extra", "}">>,
      <<"{", "pid_str", ",", "}">>,
      <<"{", "pid_str">>,
      <<"{", "pid_str", "}", "junk">> }

\* models.CreateReelRequest: the core reads only ProjectID, the other fields
\* are carried along uninterpreted
ZeroRequest == [ProjectID |-> ""]

DecodeOk(v)   == [err |-> None, value |-> v]
DecodeErr(e)  == [err |-> e, value |-> ZeroRequest]

\* the members of an object after its opening brace; expect is what the
\* grammar allows next: "first" (member or close), "member", "sep" (comma
\* or close).  A type mismatch is remembered and reported after the value
\* has been read to its end.
RECURSIVE DecodeObject(_, _, _, _)
DecodeObject(toks, expect, v, typeErr) ==
    IF toks = <<>> THEN DecodeErr("unexpected EOF")
    ELSE LET t == Head(toks) IN
      IF t = "}" /\ expect \in {"first", "sep"}
        THEN IF typeErr THEN DecodeErr("type") ELSE DecodeOk(v)
      ELSE IF t = "," /\ expect = "sep"
        THEN DecodeObject(Tail(toks), "member", v, typeErr)
      ELSE IF t \in Members /\ expect \in {"first", "member"}
        THEN DecodeObject(Tail(toks), "sep",
                          IF t = "pid_str" THEN [v EXCEPT !.ProjectID = "proj_789"] ELSE v,
                          typeErr \/ t = "pid_num")
      ELSE DecodeErr("syntax")

\* json.NewDecoder(r.Body).Decode(&req)
Decode(body) ==
    IF body = <<>> THEN DecodeErr("EOF")
    ELSE LET t == Head(body) IN
      IF t = "null" THEN DecodeOk(ZeroRequest)
      ELSE IF t = "{" THEN DecodeObject(Tail(body), "first", ZeroRequest, FALSE)
      ELSE IF t = "str" \/ t \in Members THEN DecodeErr("type")
      ELSE DecodeErr("syntax")

(***************************************************************************)
(* Responses.                                                              *)
(***************************************************************************)
NoJSON == [runId |-> <<>>, status |-> "", steps |-> <<>>]

\* http.Error(w, msg, code): the message and a line feed, as plain text
HttpError(msg, code) ==
    [status |-> code, contentType |-> "text/plain; charset=utf-8",
     text |-> msg \o "\n", json |-> NoJSON]

JSONResponse(code, doc) ==
    [status |-> code, contentType |-> "application/json", text |-> "", json |-> doc]

\* what running a handler did: the response written, the identifiers minted
\* and the log lines
Handled(resp, ids, log) ==
    [resp |-> resp, minted |-> ids, log |-> log, panic |-> FALSE]

NoResponse == [status |-> 0, contentType |-> "", text |-> "", json |-> NoJSON]

\* a handler that panicked: net/http recovers, logs and closes the connection
Panicked == [resp |-> NoResponse, minted |-> <<>>,
             log |-> << <<"http: panic serving">> >>, panic |-> TRUE]

(***************************************************************************)
(* handlers.CreateReel.  rnd is what the random source delivers to         *)
(* uuid.New().  The result names the response, the identifiers minted and  *)
(* the log lines written.                                                  *)
(***************************************************************************)
\* CreateReel forgetting WriteHeader(http.StatusAccepted): the first write
\* sends 200
CreateReel_NoWriteHeader(r, rnd) ==
    IF r.method # "POST"
      THEN Handled(HttpError("Method not allowed", 405), <<>>, <<>>)
    ELSE LET d == Decode(r.body) IN
      IF d.err # None
        THEN Handled(HttpError("Invalid request body", 400), <<>>,
                     << <<"Decode error", d.err>> >>)
      ELSE LET runID == UUIDString(UUIDNew(rnd)) IN
        Handled(JSONResponse(200, [NoJSON EXCEPT !.runId = runID]),
                <<runID>>,
                << <<"Accepted reel request", d.value.ProjectID, runID>> >>)

\* CreateReel minting the run id before it decodes the body
CreateReel_MintFirst(r, rnd) ==
    IF r.method # "POST"
      THEN Handled(HttpError("Method not allowed", 405), <<>>, <<>>)
    ELSE LET runID == UUIDString(UUIDNew(rnd))
             d     == Decode(r.body) IN
      IF d.err # None
        THEN Handled(HttpError("Invalid request body", 400), <<runID>>,
                     << <<"Decode error", d.err>> >>)
      ELSE Handled(JSONResponse(202, [NoJSON EXCEPT !.runId = runID]),
                   <<runID>>,
                   << <<"Accepted reel request", d.value.ProjectID, runID>> >>)

\* CreateReel calling uuid.New() once for the log line and once more for the
\* response
CreateReel_MintTwice(r, rnd) ==
    IF r.method # "POST"
      THEN Handled(HttpError("Method not allowed", 405), <<>>, <<>>)
    ELSE LET d == Decode(r.body) IN
      IF d.err # None
        THEN Handled(HttpError("Invalid request body", 400), <<>>,
                     << <<"Decode error", d.err>> >>)
      ELSE LET runID == UUIDString(UUIDNew(rnd)) IN
        Handled(JSONResponse(202, [NoJSON EXCEPT !.runId = runID]),
                <<runID, runID>>,
                << <<"Accepted reel request", d.value.ProjectID, runID>> >>)

\* CreateReel answering 502 when the queue service is down
CreateReel_FailOnQueueDown(r, rnd) ==
    IF r.method # "POST"
      THEN Handled(HttpError("Method not allowed", 405), <<>>, <<>>)
    ELSE LET d == Decode(r.body) IN
      IF d.err # None
        THEN Handled(HttpError("Invalid request body", 400), <<>>,
                     << <<"Decode error", d.err>> >>)
      ELSE LET runID == UUIDString(UUIDNew(rnd)) IN
        IF ~sqsUp
          THEN Handled(HttpError("Failed to publish", 502), <<runID>>, <<>>)
        ELSE Handled(JSONResponse(202, [NoJSON EXCEPT !.runId = runID]),
                     <<runID>>,
                     << <<"Accepted reel request", d.value.ProjectID, runID>> >>)

\* CreateReel decoding the body before it looks at the method
CreateReel_DecodeFirst(r, rnd) ==
    LET d == Decode(r.body) IN
    IF d.err # None
      THEN Handled(HttpError("Invalid request body", 400), <<>>,
                   << <<"Decode error", d.err>> >>)
    ELSE IF r.method # "POST"
      THEN Handled(HttpError("Method not allowed", 405), <<>>, <<>>)
    ELSE LET runID == UUIDString(UUIDNew(rnd)) IN
      Handled(JSONResponse(202, [NoJSON EXCEPT !.runId = runID]),
              <<runID>>,
              << <<"Accepted reel request", d.value.ProjectID, runID>> >>)

\* CreateReel putting the decoder's error into the response
CreateReel_LeakDecodeError(r, rnd) ==
    IF r.method # "POST"
      THEN Handled(HttpError("Method not allowed", 405), <<>>, <<>>)
    ELSE LET d == Decode(r.body) IN
      IF d.err # None
        THEN Handled(HttpError("Invalid request body: " \o d.err, 400), <<>>,
                     << <<"Decode error", d.err>> >>)
      ELSE LET runID == UUIDString(UUIDNew(rnd)) IN
        Handled(JSONResponse(202, [NoJSON EXCEPT !.runId = runID]),
                <<runID>>,
                << <<"Accepted reel request", d.value.ProjectID, runID>> >>)

\* CreateReel refusing a request without a project id
CreateReel_RequireProjectID(r, rnd) ==
    IF r.method # "POST"
      THEN Handled(HttpError("Method not allowed", 405), <<>>, <<>>)
    ELSE LET d == Decode(r.body) IN
      IF d.err # None \/ d.value.ProjectID = ""
        THEN Handled(HttpError("Invalid request body", 400), <<>>,
                     << <<"Decode error", d.err>> >>)
      ELSE LET runID == UUIDString(UUIDNew(rnd)) IN
        Handled(JSONResponse(202, [NoJSON EXCEPT !.runId = runID]),
                <<runID>>,
                << <<"Accepted reel request", d.value.ProjectID, runID>> >>)

CreateReel(r, rnd) ==
    IF r.method # "POST"
      THEN Handled(HttpError("Method not allowed", 405), <<>>, <<>>)
    ELSE LET d == Decode(r.body) IN
      IF d.err # None
        THEN Handled(HttpError("Invalid request body", 400), <<>>,
                     << <<"Decode error", d.err>> >>)
      ELSE LET runID == UUIDString(UUIDNew(rnd)) IN
        Handled(JSONResponse(202, [NoJSON EXCEPT !.runId = runID]),
                <<runID>>,
                << <<"Accepted reel request", d.value.ProjectID, runID>> >>)

(***************************************************************************)
(* handlers.GetRunStatus.  The run id is the path behind "/runs/"; slicing *)
(* a path shorter than the prefix is a run-time panic.  No WriteHeader is  *)
(* called on the success path, so the first write sends 200.               *)
(***************************************************************************)
\* GetRunStatus looking at the path before it looks at the method
GetRunStatus_PathFirst(r) ==
    IF Len(r.path) < Len(RunsPrefix) THEN Panicked
    ELSE LET runID == SubSeq(r.path, Len(RunsPrefix) + 1, Len(r.path)) IN
      IF runID = <<>>
        THEN Handled(HttpError("Missing runId", 400), <<>>, <<>>)
      ELSE IF r.method # "GET"
        THEN Handled(HttpError("Method not allowed", 405), <<>>, <<>>)
      ELSE Handled(JSONResponse(200, [runId |-> runID, status |-> "PENDING", steps |-> <<>>]),
                   <<>>,
                   << <<"Fetching status", runID>> >>)

\* GetRunStatus slicing the path at len("/runs"), one character early
GetRunStatus_SliceEarly(r) ==
    IF r.method # "GET"
      THEN Handled(HttpError("Method not allowed", 405), <<>>, <<>>)
    ELSE IF Len(r.path) < Len(RunsPrefix) - 1 THEN Panicked
    ELSE LET runID == SubSeq(r.path, Len(RunsPrefix), Len(r.path)) IN
      IF runID = <<>>
        THEN Handled(HttpError("Missing runId", 400), <<>>, <<>>)
      ELSE Handled(JSONResponse(200, [runId |-> runID, status |-> "PENDING", steps |-> <<>>]),
                   <<>>,
                   << <<"Fetching status", runID>> >>)

GetRunStatus(r) ==
    IF r.method # "GET"
      THEN Handled(HttpError("Method not allowed", 405), <<>>, <<>>)
    ELSE IF Len(r.path) < Len(RunsPrefix) THEN Panicked
    ELSE LET runID == SubSeq(r.path, Len(RunsPrefix) + 1, Len(r.path)) IN
      IF runID = <<>>
        THEN Handled(HttpError("Missing runId", 400), <<>>, <<>>)
      ELSE Handled(JSONResponse(200, [runId |-> runID, status |-> "PENDING", steps |-> <<>>]),
                   <<>>,
                   << <<"Fetching status", runID>> >>)

\* a health function that answers GET only
Health_GetOnly(r) ==
    IF r.method # "GET"
      THEN Handled(HttpError("Method not allowed", 405), <<>>, <<>>)
    ELSE Handled([status |-> 200, contentType |-> "text/plain; charset=utf-8",
                  text |-> "OK", json |-> NoJSON], <<>>, <<>>)

\* the function registered for /health in main
Health(r) ==
    Handled([status |-> 200, contentType |-> "text/plain; charset=utf-8",
             text |-> "OK", json |-> NoJSON], <<>>, <<>>)

(***************************************************************************)
(* The route table main registers on the ServeMux: "/reels" and "/health"  *)
(* match that path only, "/runs/" matches every path below it, "/runs" is  *)
(* redirected to "/runs/", anything else is not found.                     *)
(***************************************************************************)
HasPrefix(s, p) == Len(s) >= Len(p) /\ SubSeq(s, 1, Len(p)) = p

Mux(r, rnd) ==
    IF r.path = ReelsPath THEN CreateReel(r, rnd)
    ELSE IF r.path = HealthPath THEN Health(r)
    ELSE IF HasPrefix(r.path, RunsPrefix) THEN GetRunStatus(r)
    ELSE IF r.path \o <<"/">> = RunsPrefix
      THEN Handled([status |-> 301,
                    contentType |-> IF r.method = "GET" THEN "text/html; charset=utf-8" ELSE "",
                    text |-> IF r.method = "GET"
                               THEN "<a href=\"/runs/\">Moved Permanently</a>.\n\n" ELSE "",
                    json |-> NoJSON], <<>>, <<>>)
    ELSE Handled(HttpError("404 page not found", 404), <<>>, <<>>)

(***************************************************************************)
(* Environment helpers (package config).  os.Getenv yields "" for a        *)
(* variable that is not set.                                               *)
(***************************************************************************)
Getenv(e, name) == IF name \in DOMAIN e THEN e[name] ELSE ""

\* strings.ToLower / strings.ToUpper on the labels that occur
ToLower(s) ==
    CASE s \in {"dev", "Dev", "DEV"} -> "dev"
      [] s \in {"staging", "Staging", "STAGING", "sTaGiNg"} -> "staging"
      [] s \in {"prod", "Prod", "PROD"} -> "prod"
      [] s \in {"qa", "QA"} -> "qa"
      [] s \in {"production", "Production"} -> "production"
      [] OTHER -> s

ToUpper(s) ==
    CASE s = "dev" -> "DEV"
      [] s = "staging" -> "STAGING"
      [] s = "prod" -> "PROD"
      [] OTHER -> s

Dev     == "dev"
Staging == "staging"
Prod    == "prod"

\* GetCurrentEnvironment comparing the value as it is written
GetCurrentEnvironment_CaseSensitive(e) ==
    LET env == Getenv(e, "ENVIRONMENT") IN
    IF env \in {Dev, Staging, Prod} THEN env ELSE Dev

GetCurrentEnvironment(e) ==
    LET env == ToLower(Getenv(e, "ENVIRONMENT")) IN
    IF env \in {Dev, Staging, Prod} THEN env ELSE Dev

\* one field of the configuration with the base variable read first
SuffixedOrBase_BaseWins(e, base, suffix) ==
    IF Getenv(e, base) # ""
      THEN Getenv(e, base)
      ELSE Getenv(e, base \o "_" \o ToUpper(suffix))

\* one field of the configuration: the variable with the environment suffix,
\* else the variable without it
SuffixedOrBase(e, base, suffix) ==
    IF Getenv(e, base \o "_" \o ToUpper(suffix)) # ""
      THEN Getenv(e, base \o "_" \o ToUpper(suffix))
      ELSE Getenv(e, base)

LoadEnvironmentConfig(e) ==
    LET currentEnv == GetCurrentEnvironment(e) IN
    [Environment |-> currentEnv,
     EcsCluster  |-> SuffixedOrBase(e, "ECS_CLUSTER", currentEnv),
     SqsQueueURL |-> SuffixedOrBase(e, "SQS_QUEUE_URL", currentEnv),
     S3Bucket    |-> SuffixedOrBase(e, "S3_BUCKET", currentEnv),
     ClusterName |-> SuffixedOrBase(e, "CLUSTER_NAME", currentEnv),
     ApiPort     |-> IF Getenv(e, "API_PORT") = "" THEN "8080" ELSE Getenv(e, "API_PORT"),
     LogLevel    |-> IF Getenv(e, "LOG_LEVEL") = "" THEN "info" ELSE Getenv(e, "LOG_LEVEL")]

\* GetSecretName doing what its comment says for the dev branch
GetSecretName_BaseForDev(e, baseName) ==
    LET currentEnv == GetCurrentEnvironment(e) IN
    IF currentEnv = Dev THEN baseName
    ELSE baseName \o "-" \o currentEnv

GetSecretName(e, baseName) ==
    LET currentEnv == GetCurrentEnvironment(e) IN
    IF currentEnv = Dev THEN baseName \o "-dev"
    ELSE baseName \o "-" \o currentEnv

\* IsLocalDevelopment taking the flag in any letter case
IsLocalDevelopment_AnyCase(e) == Getenv(e, "USE_LOCAL_SECRETS") \in {"true", "True", "TRUE"}

IsLocalDevelopment(e) == Getenv(e, "USE_LOCAL_SECRETS") = "true"

(***************************************************************************)
(* The remote secret store and the text of a secret.  A secret string is a *)
(* sequence of lexical items:                                              *)
(*   <<"raw", t>>              text t that is not JSON                     *)
(*   <<"{">> <<"}">> <<",">>   punctuation of a JSON object                *)
(*   <<"member", k, kind, v>>  the member "k": v, kind string/number/null  *)
(*   <<"null">>, <<"number", v>>   a JSON literal                          *)
(***************************************************************************)
ItemText(it) ==
    CASE it[1] = "raw" -> it[2]
      [] it[1] = "member" ->
           "\"" \o it[2] \o "\":" \o (IF it[3] = "string" THEN "\"" \o it[4] \o "\"" ELSE it[4])
      [] it[1] = "number" -> it[2]
      [] OTHER -> it[1]

\* the secret string as the store returns it
RECURSIVE SecretText(_)
SecretText(items) ==
    IF items = <<>> THEN "" ELSE ItemText(Head(items)) \o SecretText(Tail(items))

\* fmt.Sprintf("%v", val) of a value json.Unmarshal put into the map
SprintfV(kind, v) == IF kind = "null" THEN "<nil>" ELSE v

\* json.Unmarshal of the members of an object into map[string]interface{};
\* the whole input has to be one JSON value
RECURSIVE UnmarshalMembers(_, _, _)
UnmarshalMembers(items, expect, m) ==
    IF items = <<>> THEN [err |-> "unexpected end", map |-> <<>>]
    ELSE LET it == Head(items) IN
      IF it[1] = "}" /\ expect \in {"first", "sep"}
        THEN IF Tail(items) = <<>> THEN [err |-> None, map |-> m]
             ELSE [err |-> "syntax", map |-> <<>>]
      ELSE IF it[1] = "," /\ expect = "sep"
        THEN UnmarshalMembers(Tail(items), "member", m)
      ELSE IF it[1] = "member" /\ expect \in {"first", "member"}
        THEN UnmarshalMembers(Tail(items), "sep",
               [k \in DOMAIN m \cup {it[2]} |->
                   IF k = it[2] THEN [kind |-> it[3], v |-> it[4]] ELSE m[k]])
      ELSE [err |-> "syntax", map |-> <<>>]

UnmarshalMap(items) ==
    LET it == Head(items) IN
    IF it[1] = "{" THEN UnmarshalMembers(Tail(items), "first", <<>>)
    ELSE IF it[1] = "null" /\ Len(items) = 1 THEN [err |-> None, map |-> <<>>]
    ELSE IF it[1] = "number" /\ Len(items) = 1 THEN [err |-> "type", map |-> <<>>]
    ELSE [err |-> "syntax", map |-> <<>>]

\* client.GetSecretValue: fails when the store cannot be reached and when it
\* has no entry of that name
GetSecretValue(st, id) ==
    IF ~st.up THEN [err |-> "unreachable"]
    ELSE IF id \notin DOMAIN st.entries THEN [err |-> "ResourceNotFoundException"]
    ELSE [err |-> None, SecretString |-> st.entries[id]]

\* the SecretString pointer of an entry: nil for a binary secret
NilString == << <<"nil">> >>

(***************************************************************************)
(* config.LoadFromSecretsManager.                                          *)
(***************************************************************************)
BaseSecretNames ==
    {"api-key", "database-url", "jwt-secret", "oauth-client-id", "oauth-client-secret"}

EmptySecrets == [n \in BaseSecretNames |-> ""]

\* the loop body without the second lookup under the base name
LoadOneSecret_NoFallback(e, st, baseName) ==
    LET secretName == GetSecretName(e, baseName)
        first      == GetSecretValue(st, secretName)
        second     == GetSecretValue(st, baseName)
        result     == first
        calls      == <<secretName>>
        fallback   == IF first.err = None THEN {}
                      ELSE {<<"not found, trying fallback", secretName, baseName>>}
    IN
    IF result.err # None
      THEN [value |-> "", calls |-> calls,
            log |-> fallback \cup {<<"Warning: fallback also not found", baseName, result.err>>}]
    ELSE
      LET items        == IF result.SecretString = NilString THEN <<>> ELSE result.SecretString
          secretString == SecretText(items)
          parsed       == UnmarshalMap(items)
          value        == IF secretString = "" THEN ""
                          ELSE IF parsed.err = None /\ baseName \in DOMAIN parsed.map
                            THEN SprintfV(parsed.map[baseName].kind, parsed.map[baseName].v)
                          ELSE secretString
      IN [value |-> value, calls |-> calls,
          log |-> fallback \cup {<<"Loaded secret", secretName, GetCurrentEnvironment(e)>>}]

\* the loop body leaving the field empty for an object without the field
LoadOneSecret_EmptyWithoutField(e, st, baseName) ==
    LET secretName == GetSecretName(e, baseName)
        first      == GetSecretValue(st, secretName)
        second     == GetSecretValue(st, baseName)
        result     == IF first.err = None THEN first ELSE second
        calls      == IF first.err = None THEN <<secretName>> ELSE <<secretName, baseName>>
        fallback   == IF first.err = None THEN {}
                      ELSE {<<"not found, trying fallback", secretName, baseName>>}
    IN
    IF result.err # None
      THEN [value |-> "", calls |-> calls,
            log |-> fallback \cup {<<"Warning: fallback also not found", baseName, result.err>>}]
    ELSE
      LET items        == IF result.SecretString = NilString THEN <<>> ELSE result.SecretString
          secretString == SecretText(items)
          parsed       == UnmarshalMap(items)
          value        == IF secretString = "" THEN ""
                          ELSE IF parsed.err = None /\ baseName \in DOMAIN parsed.map
                            THEN SprintfV(parsed.map[baseName].kind, parsed.map[baseName].v)
                          ELSE IF parsed.err = None THEN ""
                          ELSE secretString
      IN [value |-> value, calls |-> calls,
          log |-> fallback \cup {<<"Loaded secret", secretName, GetCurrentEnvironment(e)>>}]

\* the body of the loop for one entry of baseSecrets: the value the field
\* ends with, the store lookups made, the lines logged
LoadOneSecret(e, st, baseName) ==
    LET secretName == GetSecretName(e, baseName)
        first      == GetSecretValue(st, secretName)
        second     == GetSecretValue(st, baseName)
        result     == IF first.err = None THEN first ELSE second
        calls      == IF first.err = None THEN <<secretName>> ELSE <<secretName, baseName>>
        fallback   == IF first.err = None THEN {}
                      ELSE {<<"not found, trying fallback", secretName, baseName>>}
    IN
    IF result.err # None
      THEN [value |-> "", calls |-> calls,
            log |-> fallback \cup {<<"Warning: fallback also not found", baseName, result.err>>}]
    ELSE
      LET items        == IF result.SecretString = NilString THEN <<>> ELSE result.SecretString
          secretString == SecretText(items)
          parsed       == UnmarshalMap(items)
          value        == IF secretString = "" THEN ""
                          ELSE IF parsed.err = None /\ baseName \in DOMAIN parsed.map
                            THEN SprintfV(parsed.map[baseName].kind, parsed.map[baseName].v)
                          ELSE secretString
      IN [value |-> value, calls |-> calls,
          log |-> fallback \cup {<<"Loaded secret", secretName, GetCurrentEnvironment(e)>>}]

\* loadLocalSecrets with the two OAuth variables exchanged
LoadLocalSecrets_SwapOAuth(e) ==
    [err |-> None,
     bundle |-> [n \in BaseSecretNames |->
                   CASE n = "api-key" -> Getenv(e, "LOCAL_API_KEY")
                     [] n = "database-url" -> Getenv(e, "LOCAL_DATABASE_URL")
                     [] n = "jwt-secret" -> Getenv(e, "LOCAL_JWT_SECRET")
                     [] n = "oauth-client-id" -> Getenv(e, "LOCAL_OAUTH_CLIENT_SECRET")
                     [] n = "oauth-client-secret" -> Getenv(e, "LOCAL_OAUTH_CLIENT_ID")],
     calls |-> [n \in BaseSecretNames |-> <<>>],
     log |-> {<<"WARNING: Loading secrets from environment variables (LOCAL DEVELOPMENT ONLY)">>}]

\* loadLocalSecrets
LoadLocalSecrets(e) ==
    [err |-> None,
     bundle |-> [n \in BaseSecretNames |->
                   CASE n = "api-key" -> Getenv(e, "LOCAL_API_KEY")
                     [] n = "database-url" -> Getenv(e, "LOCAL_DATABASE_URL")
                     [] n = "jwt-secret" -> Getenv(e, "LOCAL_JWT_SECRET")
                     [] n = "oauth-client-id" -> Getenv(e, "LOCAL_OAUTH_CLIENT_ID")
                     [] n = "oauth-client-secret" -> Getenv(e, "LOCAL_OAUTH_CLIENT_SECRET")],
     calls |-> [n \in BaseSecretNames |-> <<>>],
     log |-> {<<"WARNING: Loading secrets from environment variables (LOCAL DEVELOPMENT ONLY)">>}]

\* the five secrets are independent entries of a map; each is loaded by one
\* pass of the loop body
LoadFromSecretsManager(e, sdkOk, st) ==
    IF IsLocalDevelopment(e) THEN LoadLocalSecrets(e)
    ELSE IF ~sdkOk
      THEN [err |-> "unable to load SDK config", bundle |-> EmptySecrets,
            calls |-> [n \in BaseSecretNames |-> <<>>], log |-> {}]
    ELSE [err |-> None,
          bundle |-> [n \in BaseSecretNames |-> LoadOneSecret(e, st, n).value],
          calls  |-> [n \in BaseSecretNames |-> LoadOneSecret(e, st, n).calls],
          log    |-> UNION {LoadOneSecret(e, st, n).log : n \in BaseSecretNames}]

(***************************************************************************)
(* Inputs of the model: the environments the process is started in, the    *)
(* contents of the secret store, and the requests clients send.            *)
(***************************************************************************)
Environs ==
    { <<>>,
      [USE_LOCAL_SECRETS |-> "true", LOCAL_API_KEY |-> "local-key",
       ENVIRONMENT |-> "Staging", SQS_QUEUE_URL |-> "url-base",
       SQS_QUEUE_URL_STAGING |-> "url-staging", API_PORT |-> "9090"] }

Stores ==
    { [up |-> FALSE, entries |-> <<>>],
      [up |-> TRUE,
       entries |-> [n \in {"api-key-dev", "jwt-secret"} |->
                      CASE n = "api-key-dev" ->
                             << <<"{">>, <<"member", "api-key", "string", "k-dev">>, <<"}">> >>
                        [] n = "jwt-secret" -> << <<"raw", "jwt">> >>]] }

Methods == {"GET", "POST", "DELETE"}

\* the run ids clients ask about: ids no request minted and every id that
\* uuid.New() can mint
RunIds ==
    { <<>>, <<"x">> }
      \cup { UUIDString(UUIDNew(rnd)) : rnd \in RandomSources }

Paths ==
    { ReelsPath, HealthPath, <<"/">>, <<"/", "r", "u", "n", "s">> }
      \cup { RunsPrefix \o id : id \in RunIds }

\* requests carry a body of any shape on /reels, an empty or a malformed one
\* on /health and an empty one elsewhere
Requests ==
    { [method |-> m, path |-> ReelsPath, body |-> b] : m \in Methods, b \in Bodies }
      \cup { [method |-> m, path |-> HealthPath, body |-> b] :
               m \in Methods, b \in {<<>>, <<"junk">>} }
      \cup { [method |-> m, path |-> p, body |-> <<>>] :
               m \in Methods, p \in Paths \ {ReelsPath, HealthPath} }

NoRequest == [method |-> "", path |-> <<>>, body |-> <<>>]

(***************************************************************************)
(* bus.NewPublisher as main calls it, and handlers.SetPublisher, which     *)
(* keeps the publisher in a package-level variable of the handlers.        *)
(***************************************************************************)
NoCall == [fn |-> None]

\* no goroutine has been started; no script is run
NoGoroutines == <<>>

NoScript == [pc |-> None]

NewPublisher(queueURL) == [queueURL |-> queueURL]

NoPublisher == [queueURL |-> None]

SetPublisher(p) == p

(***************************************************************************)
(* bus.Publisher.PublishReelCommand.  A payload is an interface value:     *)
(*   [kind |-> "request", value |-> r]   a models.CreateReelRequest         *)
(*   [kind |-> "map", value |-> m]       a map[string]string                *)
(*   [kind |-> "nil"]                    the nil interface                  *)
(*   [kind |-> "chan"]                   a channel, which has no encoding   *)
(***************************************************************************)
\* the keys of the maps that occur, in the order json.Marshal emits them
SortedKeys == <<"idea", "projectId">>

RECURSIVE MarshalMembers(_, _, _)
MarshalMembers(m, keys, first) ==
    IF keys = <<>> THEN ""
    ELSE IF Head(keys) \notin DOMAIN m THEN MarshalMembers(m, Tail(keys), first)
    ELSE (IF first THEN "" ELSE ",")
           \o "\"" \o Head(keys) \o "\":\"" \o m[Head(keys)] \o "\""
           \o MarshalMembers(m, Tail(keys), FALSE)

\* json.Marshal(payload); the members of a request behind projectId are
\* emitted with their zero values
Marshal(payload) ==
    CASE payload.kind = "request" ->
           [err |-> None,
            text |-> "{\"projectId\":\"" \o payload.value.ProjectID
                       \o "\",\"icp\":{\"industry\":\"\",\"audiencePainPoints\":null},"
                       \o "\"idea\":\"\",\"fluxModel\":{\"loraUrl\":\"\"},"
                       \o "\"fluxPrompt\":{\"prompt\":\"\"}}"]
      [] payload.kind = "map" ->
           [err |-> None, text |-> "{" \o MarshalMembers(payload.value, SortedKeys, TRUE) \o "}"]
      [] payload.kind = "nil" -> [err |-> None, text |-> "null"]
      [] OTHER -> [err |-> "json: unsupported type: chan int", text |-> ""]

\* sqs.SendMessageInput as PublishReelCommand fills it
SendMessageInput(queueURL, body, runID) ==
    [QueueUrl |-> queueURL, MessageBody |-> body,
     MessageAttributes |-> [runId |-> [DataType |-> "String", StringValue |-> runID]]]

\* SQSClient.SendMessage: the error of the call, None when the queue took it
SendMessage(up, input) == IF up THEN None ELSE "RequestError: send request failed"

\* what a call of PublishReelCommand did: the error returned, the inputs
\* handed to SendMessage in order, those the queue accepted, the log lines
Published(err, sends, accepted, log) ==
    [err |-> err, sends |-> sends, accepted |-> accepted, log |-> log]

\* PublishReelCommand that skips a run id the queue already holds
PublishReelCommand_Dedup(p, runID, payload, up) ==
    LET m     == Marshal(payload)
        input == SendMessageInput(p.queueURL, m.text, runID)
        err   == SendMessage(up, input)
    IN
    IF m.err # None THEN Published(m.err, <<>>, <<>>, <<>>)
    ELSE IF \E j \in 1..Len(queue) : queue[j].MessageAttributes.runId.StringValue = runID
      THEN Published(None, <<>>, <<>>, <<>>)
    ELSE IF err # None
      THEN Published(err, <<input>>, <<>>, << <<"Failed to send message to SQS", runID, err>> >>)
    ELSE Published(None, <<input>>, <<input>>,
                   << <<"Successfully published reel command", runID, p.queueURL>> >>)

\* PublishReelCommand that sends although json.Marshal failed
PublishReelCommand_IgnoreMarshalError(p, runID, payload, up) ==
    LET m     == Marshal(payload)
        input == SendMessageInput(p.queueURL, m.text, runID)
        err   == SendMessage(up, input)
    IN
    IF err # None
      THEN Published(err, <<input>>, <<>>, << <<"Failed to send message to SQS", runID, err>> >>)
    ELSE Published(None, <<input>>, <<input>>,
                   << <<"Successfully published reel command", runID, p.queueURL>> >>)

\* PublishReelCommand that logs a failed send and returns nil
PublishReelCommand_SwallowSendError(p, runID, payload, up) ==
    LET m     == Marshal(payload)
        input == SendMessageInput(p.queueURL, m.text, runID)
        err   == SendMessage(up, input)
    IN
    IF m.err # None THEN Published(m.err, <<>>, <<>>, <<>>)
    ELSE IF err # None
      THEN Published(None, <<input>>, <<>>, << <<"Failed to send message to SQS", runID, err>> >>)
    ELSE Published(None, <<input>>, <<input>>,
                   << <<"Successfully published reel command", runID, p.queueURL>> >>)

PublishReelCommand(p, runID, payload, up) ==
    LET m     == Marshal(payload)
        input == SendMessageInput(p.queueURL, m.text, runID)
        err   == SendMessage(up, input)
    IN
    IF m.err # None THEN Published(m.err, <<>>, <<>>, <<>>)
    ELSE IF err # None
      THEN Published(err, <<input>>, <<>>, << <<"Failed to send message to SQS", runID, err>> >>)
    ELSE Published(None, <<input>>, <<input>>,
                   << <<"Successfully published reel command", runID, p.queueURL>> >>)

(***************************************************************************)
(* Initial state: the process has been started and main has not run yet.   *)
(***************************************************************************)
Init ==
    /\ pc = "LoadSecrets"
    /\ environ \in Environs
    /\ awsConfigOk \in BOOLEAN
    /\ store \in Stores
    /\ startupLog = {}
    /\ secrets = EmptySecrets
    /\ envConfig = None
    /\ publisher = NoPublisher
    /\ sqsUp = TRUE
    /\ queue = <<>>
    /\ sendAttempts = 0
    /\ served = 0
    /\ last = [req |-> NoRequest, resp |-> NoResponse, log |-> <<>>, panic |-> FALSE,
               sqsUp |-> TRUE]
    /\ issued = <<>>
    /\ minted = <<>>
    /\ call = NoCall
    /\ ncalls = 0
    /\ inflight = NoGoroutines
    /\ script = NoScript

(***************************************************************************)
(* main, one action per statement that can fail or that later code relies  *)
(* on.  log.Fatalf ends the process.                                       *)
(***************************************************************************)
MainLoadSecrets ==
    /\ pc = "LoadSecrets"
    /\ LET r == LoadFromSecretsManager(environ, awsConfigOk, store) IN
         /\ startupLog' = r.log
         /\ IF r.err # None
              THEN pc' = "fatal" /\ UNCHANGED secrets
              ELSE pc' = "LoadEnvironmentConfig" /\ secrets' = r.bundle
    /\ UNCHANGED <<environ, awsConfigOk, store, envConfig, publisher, sqsUp, queue,
                   sendAttempts, served, last, issued, minted,
                   call, ncalls>>
    /\ UNCHANGED <<inflight, script>>

MainLoadEnvironmentConfig ==
    /\ pc = "LoadEnvironmentConfig"
    /\ envConfig' = LoadEnvironmentConfig(environ)
    /\ pc' = "LoadDefaultConfig"
    /\ UNCHANGED <<environ, awsConfigOk, store, startupLog, secrets, publisher, sqsUp,
                   queue, sendAttempts, served, last, issued, minted,
                   call, ncalls>>
    /\ UNCHANGED <<inflight, script>>

\* main going on after awsconfig.LoadDefaultConfig failed
MainLoadDefaultConfig_IgnoreError ==
    /\ pc = "LoadDefaultConfig"
    /\ pc' = "SetPublisher"
    /\ UNCHANGED <<environ, awsConfigOk, store, startupLog, secrets, envConfig, publisher,
                   sqsUp, queue, sendAttempts, served, last, issued, minted,
                   call, ncalls>>
    /\ UNCHANGED <<inflight, script>>

MainLoadDefaultConfig ==
    /\ pc = "LoadDefaultConfig"
    /\ pc' = IF awsConfigOk THEN "SetPublisher" ELSE "fatal"
    /\ UNCHANGED <<environ, awsConfigOk, store, startupLog, secrets, envConfig, publisher,
                   sqsUp, queue, sendAttempts, served, last, issued, minted,
                   call, ncalls>>
    /\ UNCHANGED <<inflight, script>>

MainSetPublisher ==
    /\ pc = "SetPublisher"
    /\ publisher' = SetPublisher(NewPublisher(envConfig.SqsQueueURL))
    /\ pc' = "ListenAndServe"
    /\ UNCHANGED <<environ, awsConfigOk, store, startupLog, secrets, envConfig, sqsUp,
                   queue, sendAttempts, served, last, issued, minted,
                   call, ncalls>>
    /\ UNCHANGED <<inflight, script>>

\* http.ListenAndServe either binds the port and serves, or returns an error
MainListenAndServe ==
    /\ pc = "ListenAndServe"
    /\ \E bound \in BOOLEAN : pc' = IF bound THEN "serving" ELSE "fatal"
    /\ UNCHANGED <<environ, awsConfigOk, store, startupLog, secrets, envConfig, publisher,
                   sqsUp, queue, sendAttempts, served, last, issued, minted,
                   call, ncalls>>
    /\ UNCHANGED <<inflight, script>>

(***************************************************************************)
(* One request served: the mux picks the handler, the handler runs.        *)
(***************************************************************************)
ServeHTTP ==
    /\ pc = "serving"
    /\ served < MaxRequests
    /\ \E r \in Requests, rnd \in RandomSources :
         LET h == Mux(r, rnd) IN
           /\ last' = [req |-> r, resp |-> h.resp, log |-> h.log, panic |-> h.panic,
                       sqsUp |-> sqsUp]
           /\ minted' = minted \o h.minted
           /\ issued' = IF h.resp.status = 202 THEN Append(issued, h.resp.json.runId)
                        ELSE issued
    /\ served' = served + 1
    /\ UNCHANGED <<pc, environ, awsConfigOk, store, startupLog, secrets, envConfig,
                   publisher, sqsUp, queue, sendAttempts,
                   call, ncalls>>
    /\ UNCHANGED <<inflight, script>>

\* the queue service goes down or comes back
SqsChange ==
    /\ sqsUp' = ~sqsUp
    /\ UNCHANGED <<pc, environ, awsConfigOk, store, startupLog, secrets, envConfig,
                   publisher, queue, sendAttempts, served, last, issued, minted,
                   call, ncalls>>
    /\ UNCHANGED <<inflight, script>>

Next ==
    \/ MainLoadSecrets
    \/ MainLoadEnvironmentConfig
    \/ MainLoadDefaultConfig
    \/ MainSetPublisher
    \/ MainListenAndServe
    \/ ServeHTTP
    \/ SqsChange

Spec == Init /\ [][Next]_vars

(***************************************************************************)
(* The publisher on its own, driven the way its package test drives it: a  *)
(* publisher is built on a queue client and PublishReelCommand is called   *)
(* with a run id and a payload, while the queue service comes and goes.    *)
(***************************************************************************)
QueueURLs == {"https://sqs.us-east-1.amazonaws.com/123456789012/test-queue", "url-dev"}

PublishRunIds == {"run-456", "run-789"}

Payloads ==
    { [kind |-> "map", value |-> [projectId |-> "proj_123", idea |-> "Test reel idea"]],
      [kind |-> "request", value |-> [ProjectID |-> "proj_789"]],
      [kind |-> "nil", value |-> <<>>],
      [kind |-> "chan", value |-> <<>>] }

\* the variables main and the handlers own, while neither runs
AtRest ==
    /\ pc = "test"
    /\ startupLog = {}
    /\ secrets = EmptySecrets
    /\ envConfig = None
    /\ served = 0
    /\ last = [req |-> NoRequest, resp |-> NoResponse, log |-> <<>>, panic |-> FALSE,
               sqsUp |-> TRUE]
    /\ issued = <<>>
    /\ minted = <<>>

InitPublisher ==
    /\ AtRest
    /\ environ = <<>>
    /\ awsConfigOk = TRUE
    /\ store = [up |-> FALSE, entries |-> <<>>]
    /\ publisher \in {NewPublisher(u) : u \in QueueURLs}
    /\ sqsUp = TRUE
    /\ queue = <<>>
    /\ sendAttempts = 0
    /\ call = NoCall
    /\ ncalls = 0
    /\ inflight = NoGoroutines
    /\ script = NoScript

CallPublishReelCommand ==
    /\ ncalls < MaxCalls
    /\ \E runID \in PublishRunIds, payload \in Payloads :
         LET res == PublishReelCommand(publisher, runID, payload, sqsUp) IN
           /\ call' = [fn |-> "PublishReelCommand", runID |-> runID, payload |-> payload,
                       up |-> sqsUp, err |-> res.err, sends |-> res.sends, log |-> res.log]
           /\ sendAttempts' = sendAttempts + Len(res.sends)
           /\ queue' = queue \o res.accepted
    /\ ncalls' = ncalls + 1
    /\ UNCHANGED <<pc, environ, awsConfigOk, store, startupLog, secrets, envConfig,
                   publisher, sqsUp, served, last, issued, minted>>
    /\ UNCHANGED <<inflight, script>>

NextPublisher ==
    \/ CallPublishReelCommand
    \/ SqsChange

SpecPublisher == InitPublisher /\ [][NextPublisher]_vars

(***************************************************************************)
(* The secret loader on its own: the process environment, the SDK          *)
(* configuration and the contents of the secret store are given, and       *)
(* LoadFromSecretsManager is called.                                       *)
(***************************************************************************)
\* the entries a store may hold, one shape of secret string each
StoreEntries ==
    [id \in {"api-key-dev", "api-key", "api-key-staging", "jwt-secret", "jwt-secret-prod",
             "database-url-dev", "database-url-staging", "database-url",
             "oauth-client-id-dev"} |->
       CASE id = "api-key-dev" ->
              << <<"{">>, <<"member", "api-key", "string", "k-dev">>, <<"}">> >>
         [] id = "api-key" -> << <<"raw", "k-base">> >>
         [] id = "api-key-staging" ->
              << <<"{">>, <<"member", "other", "string", "x">>, <<"}">> >>
         [] id = "jwt-secret" ->
              << <<"{">>, <<"member", "other", "number", "1">>, <<",">>,
                 <<"member", "jwt-secret", "null", "null">>, <<"}">> >>
         [] id = "jwt-secret-prod" ->
              << <<"{">>, <<"member", "jwt-secret", "string", "j-prod">> >>
         [] id = "database-url-dev" -> NilString
         [] id = "database-url-staging" ->
              << <<"{">>, <<"member", "database-url", "string", "db-staging">>, <<"}">> >>
         [] id = "database-url" -> << <<"number", "42">> >>
         [] id = "oauth-client-id-dev" -> << <<"null">> >>]

SecretStores ==
    { [up |-> u, entries |-> [id \in ids |-> StoreEntries[id]]] :
        u \in BOOLEAN, ids \in SUBSET DOMAIN StoreEntries }

LocalVariables ==
    {"LOCAL_API_KEY", "LOCAL_DATABASE_URL", "LOCAL_JWT_SECRET", "LOCAL_OAUTH_CLIENT_ID",
     "LOCAL_OAUTH_CLIENT_SECRET"}

\* an environment: the variables of names, each holding a value of its own
EnvironOf(names, label, flag) ==
    [n \in names \cup (IF label = "" THEN {} ELSE {"ENVIRONMENT"})
            \cup (IF flag = "" THEN {} ELSE {"USE_LOCAL_SECRETS"}) |->
       IF n = "ENVIRONMENT" THEN label
       ELSE IF n = "USE_LOCAL_SECRETS" THEN flag
       ELSE "val-" \o n]

SecretEnvirons ==
    { EnvironOf(names, label, flag) :
        names \in {{}, LocalVariables, {"LOCAL_API_KEY", "LOCAL_OAUTH_CLIENT_SECRET"}},
        label \in {"", "Staging", "PROD"},
        flag  \in {"", "true", "TRUE", "1"} }

InitSecrets ==
    /\ AtRest
    /\ environ \in SecretEnvirons
    /\ awsConfigOk \in BOOLEAN
    /\ store \in SecretStores
    /\ publisher = NoPublisher
    /\ sqsUp = TRUE
    /\ queue = <<>>
    /\ sendAttempts = 0
    /\ call = NoCall
    /\ ncalls = 0
    /\ inflight = NoGoroutines
    /\ script = NoScript

CallLoadFromSecretsManager ==
    /\ ncalls < MaxCalls
    /\ LET r == LoadFromSecretsManager(environ, awsConfigOk, store) IN
         call' = [fn |-> "LoadFromSecretsManager", err |-> r.err, bundle |-> r.bundle,
                  calls |-> r.calls, log |-> r.log]
    /\ ncalls' = ncalls + 1
    /\ UNCHANGED <<pc, environ, awsConfigOk, store, startupLog, secrets, envConfig,
                   publisher, sqsUp, queue, sendAttempts, served, last, issued, minted>>
    /\ UNCHANGED <<inflight, script>>

NextSecrets == CallLoadFromSecretsManager

SpecSecrets == InitSecrets /\ [][NextSecrets]_vars

(***************************************************************************)
(* The environment configuration on its own: the process environment is    *)
(* given and the functions of the config package are called.               *)
(***************************************************************************)
Labels ==
    {"", "dev", "DEV", "staging", "Staging", "sTaGiNg", "prod", "PROD", "qa", "Production",
     "unknown"}

ConfigKeys == {"ECS_CLUSTER", "SQS_QUEUE_URL", "S3_BUCKET", "CLUSTER_NAME"}

\* the variables KEY_S of the suffixes sfx (holding "" when emptied), the
\* base variables when baseSet, the port and the log level when extras
ConfigEnviron(label, sfx, emptied, baseSet, extras) ==
    LET suffixed == {k \o "_" \o x : k \in ConfigKeys, x \in sfx} IN
    [n \in suffixed \cup (IF baseSet THEN ConfigKeys ELSE {})
             \cup (IF extras THEN {"API_PORT", "LOG_LEVEL"} ELSE {})
             \cup (IF label = "" THEN {} ELSE {"ENVIRONMENT"}) |->
       IF n = "ENVIRONMENT" THEN label
       ELSE IF n = "API_PORT" THEN "9090"
       ELSE IF n = "LOG_LEVEL" THEN "debug"
       ELSE IF n \in suffixed /\ emptied THEN ""
       ELSE "val-" \o n]

ConfigEnvirons ==
    { ConfigEnviron(label, sfx, emptied, baseSet, extras) :
        label \in Labels, sfx \in SUBSET {"DEV", "STAGING", "PROD"},
        emptied \in BOOLEAN, baseSet \in BOOLEAN, extras \in BOOLEAN }

InitConfig ==
    /\ AtRest
    /\ environ \in ConfigEnvirons
    /\ awsConfigOk = TRUE
    /\ store = [up |-> FALSE, entries |-> <<>>]
    /\ publisher = NoPublisher
    /\ sqsUp = TRUE
    /\ queue = <<>>
    /\ sendAttempts = 0
    /\ call = NoCall
    /\ ncalls = 0
    /\ inflight = NoGoroutines
    /\ script = NoScript

CallGetCurrentEnvironment ==
    /\ ncalls < MaxCalls
    /\ call' = [fn |-> "GetCurrentEnvironment", result |-> GetCurrentEnvironment(environ)]
    /\ ncalls' = ncalls + 1
    /\ UNCHANGED <<pc, environ, awsConfigOk, store, startupLog, secrets, envConfig,
                   publisher, sqsUp, queue, sendAttempts, served, last, issued, minted>>
    /\ UNCHANGED <<inflight, script>>

CallGetSecretName ==
    /\ ncalls < MaxCalls
    /\ \E baseName \in BaseSecretNames :
         call' = [fn |-> "GetSecretName", baseName |-> baseName,
                  result |-> GetSecretName(environ, baseName)]
    /\ ncalls' = ncalls + 1
    /\ UNCHANGED <<pc, environ, awsConfigOk, store, startupLog, secrets, envConfig,
                   publisher, sqsUp, queue, sendAttempts, served, last, issued, minted>>
    /\ UNCHANGED <<inflight, script>>

CallLoadEnvironmentConfig ==
    /\ ncalls < MaxCalls
    /\ call' = [fn |-> "LoadEnvironmentConfig", result |-> LoadEnvironmentConfig(environ)]
    /\ ncalls' = ncalls + 1
    /\ UNCHANGED <<pc, environ, awsConfigOk, store, startupLog, secrets, envConfig,
                   publisher, sqsUp, queue, sendAttempts, served, last, issued, minted>>
    /\ UNCHANGED <<inflight, script>>

NextConfig ==
    \/ CallGetCurrentEnvironment
    \/ CallGetSecretName
    \/ CallLoadEnvironmentConfig

SpecConfig == InitConfig /\ [][NextConfig]_vars

(***************************************************************************)
(* scripts/deploy-prod.sh, run under set -e: a command that fails ends the *)
(* script with that command's status.  The operator's answer is a line of  *)
(* characters on standard input, or standard input is at its end.          *)
(***************************************************************************)
Yes == <<"y", "e", "s">>

EndOfInput == <<"EOF">>

AnswerLines ==
    { Yes, <<"n", "o">>, <<>>, <<"y">>, <<"Y", "E", "S">>, <<"y", "e", "s", "!">>,
      <<" ", "y", "e", "s">>, <<"y", "e", "s", " ">>, <<"y", "\\", "e", "s">>,
      <<"\\", " ", "y", "e", "s">>, <<"y", "e", " ", "s">>, EndOfInput }

\* read without -r: a backslash is dropped and keeps the next character
\* as it is
RECURSIVE Unescape(_)
Unescape(line) ==
    IF line = <<>> THEN <<>>
    ELSE IF Head(line) = "\\"
      THEN IF Len(line) = 1 THEN <<>>
           ELSE <<[c |-> line[2], escaped |-> TRUE]>> \o Unescape(SubSeq(line, 3, Len(line)))
    ELSE <<[c |-> Head(line), escaped |-> FALSE]>> \o Unescape(Tail(line))

IsBlank(item) == ~item.escaped /\ item.c \in {" ", "\t"}

\* read with one variable and the default IFS: blanks at both ends of the
\* line are not part of the value
RECURSIVE StripBlanks(_)
StripBlanks(items) ==
    IF items = <<>> THEN <<>>
    ELSE IF IsBlank(Head(items)) THEN StripBlanks(Tail(items))
    ELSE IF IsBlank(items[Len(items)]) THEN StripBlanks(SubSeq(items, 1, Len(items) - 1))
    ELSE items

\* read -p "..." CONFIRM: the value the variable gets from a line
Read(line) ==
    LET items == StripBlanks(Unescape(line)) IN [i \in 1..Len(items) |-> items[i].c]

\* ${CLUSTER_NAME:-api-gateway-prod}, ${SERVICE_NAME:-api-gateway},
\* ${AWS_REGION:-us-east-1}
DefaultTo(e, name, default) == IF Getenv(e, name) = "" THEN default ELSE Getenv(e, name)

DeployEnvirons ==
    { <<>>, [CLUSTER_NAME |-> "blue"], [AWS_REGION |-> "eu-west-1", SERVICE_NAME |-> "gw"] }

TaskDefinitions == {"api-gateway:41", "api-gateway:42"}

\* an aws command as the script runs it
Aws(sc, command, args) ==
    [command |-> command, cluster |-> sc.CLUSTER_NAME, service |-> sc.SERVICE_NAME,
     region |-> sc.AWS_REGION, args |-> args]

\* the script ends with a status
Exited(sc, status) == [sc EXCEPT !.pc = "exited", !.exit = status]

\* the test that accepts every answer except no
ScriptConfirm_UnlessNo(sc) ==
    IF sc.CONFIRM = <<"n", "o">>
      THEN Exited([sc EXCEPT !.echoed = Append(@, "Aborting deployment")], 1)
    ELSE [sc EXCEPT !.pc = "describe"]

\* if [ "$CONFIRM" != "yes" ]; then echo ...; exit 1; fi
ScriptConfirm(sc) ==
    IF sc.CONFIRM # Yes
      THEN Exited([sc EXCEPT !.echoed = Append(@, "Aborting deployment")], 1)
    ELSE [sc EXCEPT !.pc = "describe"]

InitDeploy ==
    /\ AtRest
    /\ environ \in DeployEnvirons
    /\ awsConfigOk = TRUE
    /\ store = [up |-> FALSE, entries |-> <<>>]
    /\ publisher = NoPublisher
    /\ sqsUp = TRUE
    /\ queue = <<>>
    /\ sendAttempts = 0
    /\ call = NoCall
    /\ ncalls = 0
    /\ inflight = NoGoroutines
    /\ \E line \in AnswerLines :
         script = [pc |-> "read", stdin |-> line,
                   CLUSTER_NAME |-> DefaultTo(environ, "CLUSTER_NAME", "api-gateway-prod"),
                   SERVICE_NAME |-> DefaultTo(environ, "SERVICE_NAME", "api-gateway"),
                   AWS_REGION |-> DefaultTo(environ, "AWS_REGION", "us-east-1"),
                   CONFIRM |-> <<>>, TASK_DEF |-> "", ran |-> <<>>, echoed |-> <<>>,
                   exit |-> 0]

\* read -p ... CONFIRM: at the end of input read fails and set -e ends the
\* script
DeployRead ==
    /\ script.pc = "read"
    /\ script' = IF script.stdin = EndOfInput THEN Exited(script, 1)
                 ELSE [script EXCEPT !.pc = "confirm", !.CONFIRM = Read(script.stdin)]
    /\ UNCHANGED <<pc, environ, awsConfigOk, store, startupLog, secrets, envConfig,
                   publisher, sqsUp, queue, sendAttempts, served, last, issued, minted,
                   call, ncalls, inflight>>

DeployConfirm ==
    /\ script.pc = "confirm"
    /\ script' = ScriptConfirm(script)
    /\ UNCHANGED <<pc, environ, awsConfigOk, store, startupLog, secrets, envConfig,
                   publisher, sqsUp, queue, sendAttempts, served, last, issued, minted,
                   call, ncalls, inflight>>

\* TASK_DEF=$(aws ecs describe-services ... --query taskDefinition)
DeployDescribeServices ==
    /\ script.pc = "describe"
    /\ LET ranNow == [script EXCEPT !.ran = Append(@, Aws(script, "describe-services",
                                                          "taskDefinition"))] IN
         \/ script' = Exited(ranNow, 255)
         \/ \E td \in TaskDefinitions :
              script' = [ranNow EXCEPT !.pc = "update", !.TASK_DEF = td,
                           !.echoed = Append(@, "Current task definition: " \o td)]
    /\ UNCHANGED <<pc, environ, awsConfigOk, store, startupLog, secrets, envConfig,
                   publisher, sqsUp, queue, sendAttempts, served, last, issued, minted,
                   call, ncalls, inflight>>

\* aws ecs update-service --task-definition "$TASK_DEF" --force-new-deployment
DeployUpdateService ==
    /\ script.pc = "update"
    /\ LET ranNow == [script EXCEPT !.ran = Append(@, Aws(script, "update-service",
                                                          script.TASK_DEF))] IN
         \/ script' = Exited(ranNow, 255)
         \/ script' = [ranNow EXCEPT !.pc = "wait"]
    /\ UNCHANGED <<pc, environ, awsConfigOk, store, startupLog, secrets, envConfig,
                   publisher, sqsUp, queue, sendAttempts, served, last, issued, minted,
                   call, ncalls, inflight>>

\* aws ecs wait services-stable
DeployWait ==
    /\ script.pc = "wait"
    /\ LET ranNow == [script EXCEPT !.ran = Append(@, Aws(script, "wait", "services-stable"))] IN
         \/ script' = Exited(ranNow, 255)
         \/ script' = [ranNow EXCEPT !.pc = "status"]
    /\ UNCHANGED <<pc, environ, awsConfigOk, store, startupLog, secrets, envConfig,
                   publisher, sqsUp, queue, sendAttempts, served, last, issued, minted,
                   call, ncalls, inflight>>

\* the last describe-services and the end of the script
DeployStatus ==
    /\ script.pc = "status"
    /\ LET ranNow == [script EXCEPT !.ran = Append(@, Aws(script, "describe-services",
                                                          "serviceName, status"))] IN
         \/ script' = Exited(ranNow, 255)
         \/ script' = Exited([ranNow EXCEPT !.echoed =
                                 Append(@, "API Gateway successfully deployed to Production!")], 0)
    /\ UNCHANGED <<pc, environ, awsConfigOk, store, startupLog, secrets, envConfig,
                   publisher, sqsUp, queue, sendAttempts, served, last, issued, minted,
                   call, ncalls, inflight>>

NextDeploy ==
    \/ DeployRead
    \/ DeployConfirm
    \/ DeployDescribeServices
    \/ DeployUpdateService
    \/ DeployWait
    \/ DeployStatus

SpecDeploy == InitDeploy /\ [][NextDeploy]_vars

(***************************************************************************)
(* The loop of LoadFromSecretsManager over the map baseSecrets, one pass   *)
(* at a time.  Go ranges over a map in an order that is not specified, so  *)
(* each pass takes any entry that has not been taken yet.                  *)
(***************************************************************************)
LoopStores ==
    { [up |-> u, entries |-> [id \in ids |-> StoreEntries[id]]] :
        u \in BOOLEAN,
        ids \in SUBSET {"api-key-dev", "api-key", "jwt-secret", "jwt-secret-prod",
                        "database-url"} }

LoopEnvirons == { <<>>, [ENVIRONMENT |-> "prod"] }

\* the state of the call when the loop is entered
LoopEntered ==
    [fn |-> "range baseSecrets", remaining |-> BaseSecretNames, attempts |-> <<>>,
     bundle |-> EmptySecrets, lookups |-> <<>>, log |-> {}]

\* one pass that ends the loop when both lookups of its secret fail
LoadLoopStep_BreakOnMissing(c, e, st, baseName) ==
    LET one == LoadOneSecret(e, st, baseName) IN
    [c EXCEPT !.remaining = IF Len(one.calls) = 2 /\ one.value = "" THEN {}
                            ELSE @ \ {baseName},
              !.attempts = Append(@, baseName),
              !.bundle[baseName] = one.value,
              !.lookups = @ \o one.calls,
              !.log = @ \cup one.log]

\* one pass of the loop, for the entry baseName
LoadLoopStep(c, e, st, baseName) ==
    LET one == LoadOneSecret(e, st, baseName) IN
    [c EXCEPT !.remaining = @ \ {baseName},
              !.attempts = Append(@, baseName),
              !.bundle[baseName] = one.value,
              !.lookups = @ \o one.calls,
              !.log = @ \cup one.log]

InitLoop ==
    /\ AtRest
    /\ environ \in LoopEnvirons
    /\ awsConfigOk = TRUE
    /\ store \in LoopStores
    /\ publisher = NoPublisher
    /\ sqsUp = TRUE
    /\ queue = <<>>
    /\ sendAttempts = 0
    /\ call = NoCall
    /\ ncalls = 0
    /\ inflight = NoGoroutines
    /\ script = NoScript

\* the call up to the loop: not local, SDK configuration loaded
LoadLoopEnter ==
    /\ call = NoCall
    /\ ~IsLocalDevelopment(environ) /\ awsConfigOk
    /\ call' = LoopEntered
    /\ UNCHANGED <<pc, environ, awsConfigOk, store, startupLog, secrets, envConfig,
                   publisher, sqsUp, queue, sendAttempts, served, last, issued, minted,
                   ncalls, inflight, script>>

LoadLoopPass ==
    /\ call.fn = "range baseSecrets"
    /\ \E baseName \in call.remaining :
         call' = LoadLoopStep(call, environ, store, baseName)
    /\ UNCHANGED <<pc, environ, awsConfigOk, store, startupLog, secrets, envConfig,
                   publisher, sqsUp, queue, sendAttempts, served, last, issued, minted,
                   ncalls, inflight, script>>

\* return secretsConfig, nil
LoadLoopReturn ==
    /\ call.fn = "range baseSecrets"
    /\ call.remaining = {}
    /\ call' = [call EXCEPT !.fn = "returned"]
    /\ UNCHANGED <<pc, environ, awsConfigOk, store, startupLog, secrets, envConfig,
                   publisher, sqsUp, queue, sendAttempts, served, last, issued, minted,
                   ncalls, inflight, script>>

NextLoop ==
    \/ LoadLoopEnter
    \/ LoadLoopPass
    \/ LoadLoopReturn

SpecLoop == InitLoop /\ [][NextLoop]_vars

(***************************************************************************)
(* The handlers called the way their package test calls them: a request is *)
(* built for a method and a target and handed to the handler, without the  *)
(* route table in between.                                                 *)
(***************************************************************************)
DirectPaths ==
    { <<"/">>, <<"/", "r", "u", "n", "s">>, RunsPrefix, RunsPrefix \o <<"x">>, ReelsPath }

DirectRequests ==
    { [method |-> m, path |-> ReelsPath, body |-> b] : m \in Methods, b \in Bodies }
      \cup { [method |-> m, path |-> p, body |-> <<>>] : m \in Methods, p \in DirectPaths }

InitHandlers ==
    /\ AtRest
    /\ environ = <<>>
    /\ awsConfigOk = TRUE
    /\ store = [up |-> FALSE, entries |-> <<>>]
    /\ publisher = NoPublisher
    /\ sqsUp = TRUE
    /\ queue = <<>>
    /\ sendAttempts = 0
    /\ call = NoCall
    /\ ncalls = 0
    /\ inflight = NoGoroutines
    /\ script = NoScript

CallCreateReel ==
    /\ ncalls < MaxCalls
    /\ \E r \in DirectRequests, rnd \in RandomSources :
         LET h == CreateReel(r, rnd) IN
           call' = [fn |-> "CreateReel", req |-> r, resp |-> h.resp, panic |-> h.panic,
                    log |-> h.log]
    /\ ncalls' = ncalls + 1
    /\ UNCHANGED <<pc, environ, awsConfigOk, store, startupLog, secrets, envConfig,
                   publisher, sqsUp, queue, sendAttempts, served, last, issued, minted,
                   inflight, script>>

CallGetRunStatus ==
    /\ ncalls < MaxCalls
    /\ \E r \in DirectRequests :
         LET h == GetRunStatus(r) IN
           call' = [fn |-> "GetRunStatus", req |-> r, resp |-> h.resp, panic |-> h.panic,
                    log |-> h.log]
    /\ ncalls' = ncalls + 1
    /\ UNCHANGED <<pc, environ, awsConfigOk, store, startupLog, secrets, envConfig,
                   publisher, sqsUp, queue, sendAttempts, served, last, issued, minted,
                   inflight, script>>

NextHandlers ==
    \/ CallCreateReel
    \/ CallGetRunStatus

SpecHandlers == InitHandlers /\ [][NextHandlers]_vars

(***************************************************************************)
(* Requests in flight.  http.ListenAndServe runs every request in a        *)
(* goroutine of its own, so the statements of the handlers interleave; a   *)
(* goroutine holds the local variables of its handler.  PublishReelCommand *)
(* is called from goroutines as well, each call made for a request whose   *)
(* client may go away at any time.                                         *)
(***************************************************************************)
\* number of goroutines started in one behaviour
MaxInFlight == 2

ConcurrentRequests ==
    { [method |-> "POST", path |-> ReelsPath, body |-> <<"{", "pid_str", "}">>],
      [method |-> "POST", path |-> ReelsPath, body |-> <<"junk">>],
      [method |-> "GET", path |-> RunsPrefix \o <<"x">>, body |-> <<>>],
      [method |-> "DELETE", path |-> RunsPrefix, body |-> <<>>] }

PublishCalls ==
    { [runID |-> "run-456",
       payload |-> [kind |-> "map", value |-> [projectId |-> "proj_123", idea |-> "Test reel idea"]]],
      [runID |-> "run-789", payload |-> [kind |-> "request", value |-> [ProjectID |-> "proj_789"]]],
      [runID |-> "run-789", payload |-> [kind |-> "chan", value |-> <<>>]] }

NoArguments == [runID |-> "", payload |-> [kind |-> "nil", value |-> <<>>]]

\* a goroutine at the first statement of fn
Goroutine(fn, r, arguments) ==
    [kind |-> fn, req |-> r, arg |-> arguments,
     pc |-> IF fn = "PublishReelCommand" THEN "marshal" ELSE "method",
     rnd |-> <<>>, projectID |-> "", runID |-> <<>>, resp |-> NoResponse, log |-> <<>>,
     body |-> "", err |-> None, cancelled |-> "no"]

\* the handler the route table gives a request to
RouteOf(r) == IF r.path = ReelsPath THEN "CreateReel" ELSE "GetRunStatus"

\* CreateReel keeping the run id in a variable of the package: the response
\* is written from the id minted last
CreateReelStep_SharedRunID(g, rnd) ==
    CASE g.pc = "method" ->
           IF g.req.method # "POST"
             THEN [g EXCEPT !.resp = HttpError("Method not allowed", 405), !.pc = "done"]
             ELSE [g EXCEPT !.pc = "decode"]
      [] g.pc = "decode" ->
           LET d == Decode(g.req.body) IN
           IF d.err # None
             THEN [g EXCEPT !.log = << <<"Decode error", d.err>> >>,
                            !.resp = HttpError("Invalid request body", 400), !.pc = "done"]
             ELSE [g EXCEPT !.projectID = d.value.ProjectID, !.pc = "mint"]
      [] g.pc = "mint" ->
           LET runID == UUIDString(UUIDNew(rnd)) IN
           [g EXCEPT !.rnd = rnd, !.runID = runID,
                     !.log = << <<"Accepted reel request", g.projectID, runID>> >>,
                     !.pc = "respond"]
      [] g.pc = "respond" ->
           [g EXCEPT !.resp = JSONResponse(202, [NoJSON EXCEPT !.runId = minted[Len(minted)]]),
                     !.pc = "done"]

\* one statement of CreateReel in the goroutine g
CreateReelStep(g, rnd) ==
    CASE g.pc = "method" ->
           IF g.req.method # "POST"
             THEN [g EXCEPT !.resp = HttpError("Method not allowed", 405), !.pc = "done"]
             ELSE [g EXCEPT !.pc = "decode"]
      [] g.pc = "decode" ->
           LET d == Decode(g.req.body) IN
           IF d.err # None
             THEN [g EXCEPT !.log = << <<"Decode error", d.err>> >>,
                            !.resp = HttpError("Invalid request body", 400), !.pc = "done"]
             ELSE [g EXCEPT !.projectID = d.value.ProjectID, !.pc = "mint"]
      [] g.pc = "mint" ->
           LET runID == UUIDString(UUIDNew(rnd)) IN
           [g EXCEPT !.rnd = rnd, !.runID = runID,
                     !.log = << <<"Accepted reel request", g.projectID, runID>> >>,
                     !.pc = "respond"]
      [] g.pc = "respond" ->
           [g EXCEPT !.resp = JSONResponse(202, [NoJSON EXCEPT !.runId = g.runID]),
                     !.pc = "done"]

\* one statement of GetRunStatus in the goroutine g
GetRunStatusStep(g) ==
    CASE g.pc = "method" ->
           IF g.req.method # "GET"
             THEN [g EXCEPT !.resp = HttpError("Method not allowed", 405), !.pc = "done"]
             ELSE [g EXCEPT !.pc = "slice"]
      [] g.pc = "slice" ->
           IF Len(g.req.path) < Len(RunsPrefix)
             THEN [g EXCEPT !.log = << <<"http: panic serving">> >>, !.pc = "done"]
           ELSE LET runID == SubSeq(g.req.path, Len(RunsPrefix) + 1, Len(g.req.path)) IN
             IF runID = <<>>
               THEN [g EXCEPT !.resp = HttpError("Missing runId", 400), !.pc = "done"]
               ELSE [g EXCEPT !.runID = runID, !.log = << <<"Fetching status", runID>> >>,
                              !.pc = "respond"]
      [] g.pc = "respond" ->
           [g EXCEPT !.resp = JSONResponse(200, [runId |-> g.runID, status |-> "PENDING",
                                                  steps |-> <<>>]),
                     !.pc = "done"]

\* context.Background() is never done; the context of a request is done
\* once its client has gone away
Background == [done |-> FALSE]

RequestContext(g) == [done |-> g.cancelled # "no"]

\* SendMessage under a context: a context that is done ends the call
SendMessageContext(ctx, up, input) ==
    IF ctx.done THEN "context canceled" ELSE SendMessage(up, input)

\* PublishReelCommand sending under the context of the request
PublishStep_RequestContext(g, p, up) ==
    CASE g.pc = "marshal" ->
           LET m == Marshal(g.arg.payload) IN
           [g |-> IF m.err # None THEN [g EXCEPT !.err = m.err, !.pc = "done"]
                  ELSE [g EXCEPT !.body = m.text, !.pc = "send"],
            sends |-> <<>>, accepted |-> <<>>]
      [] g.pc = "send" ->
           LET input == SendMessageInput(p.queueURL, g.body, g.arg.runID)
               err   == SendMessageContext(RequestContext(g), up, input)
           IN
           [g |-> [g EXCEPT !.err = err, !.pc = "done",
                            !.log = IF err # None
                                      THEN << <<"Failed to send message to SQS", g.arg.runID, err>> >>
                                      ELSE << <<"Successfully published reel command",
                                                g.arg.runID, p.queueURL>> >>],
            sends |-> <<input>>,
            accepted |-> IF err = None THEN <<input>> ELSE <<>>]

\* one statement of PublishReelCommand in the goroutine g: the goroutine
\* afterwards, the inputs handed to SendMessage and those the queue took
PublishStep(g, p, up) ==
    CASE g.pc = "marshal" ->
           LET m == Marshal(g.arg.payload) IN
           [g |-> IF m.err # None THEN [g EXCEPT !.err = m.err, !.pc = "done"]
                  ELSE [g EXCEPT !.body = m.text, !.pc = "send"],
            sends |-> <<>>, accepted |-> <<>>]
      [] g.pc = "send" ->
           LET input == SendMessageInput(p.queueURL, g.body, g.arg.runID)
               err   == SendMessageContext(Background, up, input)
           IN
           [g |-> [g EXCEPT !.err = err, !.pc = "done",
                            !.log = IF err # None
                                      THEN << <<"Failed to send message to SQS", g.arg.runID, err>> >>
                                      ELSE << <<"Successfully published reel command",
                                                g.arg.runID, p.queueURL>> >>],
            sends |-> <<input>>,
            accepted |-> IF err = None THEN <<input>> ELSE <<>>]

\* the server is up: main has run to ListenAndServe
InitConcurrent ==
    /\ pc = "serving"
    /\ environ = <<>>
    /\ awsConfigOk = TRUE
    /\ store = [up |-> FALSE, entries |-> <<>>]
    /\ startupLog = {}
    /\ secrets = EmptySecrets
    /\ envConfig = LoadEnvironmentConfig(environ)
    /\ publisher = SetPublisher(NewPublisher("url-dev"))
    /\ sqsUp = TRUE
    /\ queue = <<>>
    /\ sendAttempts = 0
    /\ served = 0
    /\ last = [req |-> NoRequest, resp |-> NoResponse, log |-> <<>>, panic |-> FALSE,
               sqsUp |-> TRUE]
    /\ issued = <<>>
    /\ minted = <<>>
    /\ call = NoCall
    /\ ncalls = 0
    /\ inflight = NoGoroutines
    /\ script = NoScript

\* a request arrives and gets its goroutine
Accept ==
    /\ Len(inflight) < MaxInFlight
    /\ \E r \in ConcurrentRequests :
         inflight' = Append(inflight, Goroutine(RouteOf(r), r, NoArguments))
    /\ UNCHANGED <<pc, environ, awsConfigOk, store, startupLog, secrets, envConfig,
                   publisher, sqsUp, queue, sendAttempts, served, last, issued, minted,
                   call, ncalls, script>>

\* a goroutine calls PublishReelCommand on the shared publisher
GoPublish ==
    /\ Len(inflight) < MaxInFlight
    /\ \E a \in PublishCalls :
         inflight' = Append(inflight, Goroutine("PublishReelCommand", NoRequest, a))
    /\ UNCHANGED <<pc, environ, awsConfigOk, store, startupLog, secrets, envConfig,
                   publisher, sqsUp, queue, sendAttempts, served, last, issued, minted,
                   call, ncalls, script>>

RunCreateReel ==
    /\ \E i \in DOMAIN inflight, rnd \in RandomSources :
         /\ inflight[i].kind = "CreateReel" /\ inflight[i].pc # "done"
         /\ LET g == CreateReelStep(inflight[i], rnd) IN
              /\ inflight' = [inflight EXCEPT ![i] = g]
              /\ minted' = IF inflight[i].pc = "mint" THEN Append(minted, g.runID) ELSE minted
              /\ issued' = IF inflight[i].pc = "respond" THEN Append(issued, g.resp.json.runId)
                           ELSE issued
    /\ UNCHANGED <<pc, environ, awsConfigOk, store, startupLog, secrets, envConfig,
                   publisher, sqsUp, queue, sendAttempts, served, last,
                   call, ncalls, script>>

RunGetRunStatus ==
    /\ \E i \in DOMAIN inflight :
         /\ inflight[i].kind = "GetRunStatus" /\ inflight[i].pc # "done"
         /\ inflight' = [inflight EXCEPT ![i] = GetRunStatusStep(inflight[i])]
    /\ UNCHANGED <<pc, environ, awsConfigOk, store, startupLog, secrets, envConfig,
                   publisher, sqsUp, queue, sendAttempts, served, last, issued, minted,
                   call, ncalls, script>>

RunPublish ==
    /\ \E i \in DOMAIN inflight :
         /\ inflight[i].kind = "PublishReelCommand" /\ inflight[i].pc # "done"
         /\ LET step == PublishStep(inflight[i], publisher, sqsUp) IN
              /\ inflight' = [inflight EXCEPT ![i] = step.g]
              /\ queue' = queue \o step.accepted
              /\ sendAttempts' = sendAttempts + Len(step.sends)
    /\ UNCHANGED <<pc, environ, awsConfigOk, store, startupLog, secrets, envConfig,
                   publisher, sqsUp, served, last, issued, minted,
                   call, ncalls, script>>

\* the client of the request a publish is made for goes away
ClientDisconnect ==
    /\ \E i \in DOMAIN inflight :
         /\ inflight[i].kind = "PublishReelCommand" /\ inflight[i].pc # "done"
         /\ inflight[i].cancelled = "no"
         /\ inflight' = [inflight EXCEPT ![i].cancelled = inflight[i].pc]
    /\ UNCHANGED <<pc, environ, awsConfigOk, store, startupLog, secrets, envConfig,
                   publisher, sqsUp, queue, sendAttempts, served, last, issued, minted,
                   call, ncalls, script>>

NextConcurrent ==
    \/ Accept
    \/ GoPublish
    \/ RunCreateReel
    \/ RunGetRunStatus
    \/ RunPublish
    \/ ClientDisconnect
    \/ SqsChange

SpecConcurrent == InitConcurrent /\ [][NextConcurrent]_vars

(***************************************************************************)
(* Properties.                                                             *)
(***************************************************************************)
\* the step just taken handled a request
Handling == served' = served + 1

LastWasIntake == served > 0 /\ last.req.path = ReelsPath
LastWasStatus == served > 0 /\ HasPrefix(last.req.path, RunsPrefix)
LastWasHealth == served > 0 /\ last.req.path = HealthPath

LastRunId == SubSeq(last.req.path, Len(RunsPrefix) + 1, Len(last.req.path))

\* the canonical rendering of a UUID: 36 characters, dashes at 9, 14, 19, 24
WellFormedRunId(id) ==
    /\ Len(id) = 36
    /\ \A i \in 1..Len(id) :
         IF i \in {9, 14, 19, 24} THEN id[i] = "-"
         ELSE \E k \in 1..16 : id[i] = HexDigits[k]

\* C1: every POST /reels whose body decodes as a request is answered
\* 202 Accepted with a JSON body whose runId is a non-empty string (a UUID in
\* its canonical rendering).
C1_AcceptedWithRunId ==
    (LastWasIntake /\ last.req.method = "POST" /\ Decode(last.req.body).err = None)
      => /\ last.resp.status = 202
         /\ last.resp.contentType = "application/json"
         /\ last.resp.json.runId # <<>>
         /\ WellFormedRunId(last.resp.json.runId)

C1_Witness ==
    /\ LastWasIntake /\ last.req.method = "POST"
    /\ last.req.body = <<"{", "pid_str", ",", "extra", "}">>
    /\ last.resp.status = 202

\* C2: for every accepted POST /reels a message has been published to the
\* queue whose runId attribute equals the runId of the 202 response.
C2_PublishedWithRunId ==
    \A i \in 1..Len(issued) :
       \E j \in 1..Len(queue) :
          queue[j].MessageAttributes.runId.StringValue = issued[i]

\* C3: a POST /reels whose body fails to decode is answered 400, and
\* handling it mints no run identifier and publishes no message.
C3_MalformedRejected ==
    [][(Handling /\ last'.req.path = ReelsPath /\ last'.req.method = "POST"
          /\ Decode(last'.req.body).err # None)
        => /\ last'.resp.status = 400
           /\ minted' = minted
           /\ issued' = issued
           /\ queue' = queue
           /\ sendAttempts' = sendAttempts]_vars

C3_Witness ==
    /\ LastWasIntake /\ last.req.method = "POST"
    /\ last.req.body = <<"{", "pid_num", "}">>
    /\ last.resp.status = 400
    /\ minted = <<>>

\* C4: every accepted request yields exactly one run identifier and at
\* most one publish attempt: the identifiers minted are exactly those of the
\* 202 responses, the publish attempts never outnumber the 202 responses, and
\* no request causes two SendMessage calls.
C4_OneIdAtMostOnePublish ==
    [][/\ minted' = issued'
       /\ sendAttempts' <= Len(issued')
       /\ sendAttempts' <= sendAttempts + 1
       /\ Len(minted') <= Len(minted) + 1]_vars

C4_Witness ==
    /\ Len(issued) = 2
    /\ minted = issued
    /\ sendAttempts <= 2

C7_MethodBeforeBody ==
    (LastWasIntake /\ last.req.method # "POST")
      => /\ last.resp.status = 405
         /\ last.resp.text = "Method not allowed\n"

C7_Witness ==
    /\ LastWasIntake /\ last.req.method = "GET"
    /\ Decode(last.req.body).err # None
    /\ last.resp.status = 405

\* C8: a request to GetRunStatus whose method is not GET is answered 405,
\* also when the run id is empty, and a GET whose run id is empty is
\* answered 400.
C8_StatusMethodThenPath ==
    LastWasStatus
      => /\ last.req.method # "GET" => last.resp.status = 405
         /\ (last.req.method = "GET" /\ LastRunId = <<>>) => last.resp.status = 400

C8_Witness ==
    /\ LastWasStatus /\ last.req.method = "DELETE"
    /\ LastRunId = <<>>
    /\ last.resp.status = 405

\* C9: a GET /runs/{id} with a non-empty id is answered 200 with the id
\* of the path, status PENDING and no steps, after any earlier requests, for
\* ids that POST /reels returned and for ids it never returned.
C9_AlwaysPending ==
    (LastWasStatus /\ last.req.method = "GET" /\ LastRunId # <<>>)
      => /\ last.resp.status = 200
         /\ last.resp.json = [runId |-> LastRunId, status |-> "PENDING", steps |-> <<>>]

C9_Witness ==
    /\ LastWasStatus /\ last.req.method = "GET"
    /\ \E i \in 1..Len(issued) : issued[i] = LastRunId
    /\ last.resp.status = 200
    /\ last.resp.json.status = "PENDING"

\* C10: requests are handled only once the server is serving, and every
\* request to /health is then answered 200 with body OK, for every method,
\* configuration, secret bundle and history of requests.
C10_HealthAlwaysOk ==
    /\ served > 0 => pc = "serving"
    /\ LastWasHealth => (last.resp.status = 200 /\ last.resp.text = "OK")

C10_Witness ==
    /\ LastWasHealth /\ last.req.method = "POST"
    /\ served = 2
    /\ envConfig.SqsQueueURL = ""
    /\ secrets = EmptySecrets
    /\ last.resp.status = 200

\* the step just taken was a call of PublishReelCommand
Publishing == ncalls' = ncalls + 1 /\ call'.fn = "PublishReelCommand"

\* the message PublishReelCommand has to send for the call recorded in c
ExpectedMessage(c) ==
    [QueueUrl |-> publisher.queueURL,
     MessageBody |-> Marshal(c.payload).text,
     MessageAttributes |-> [runId |-> [DataType |-> "String", StringValue |-> c.runID]]]

\* C11: PublishReelCommand with a serializable payload makes exactly one
\* SendMessage call, to the publisher's queue URL, with the JSON encoding of
\* the payload as body and the attribute runId of type String and value
\* runID; a run id that was sent before is sent again.
C11_OneTaggedSend ==
    [][(Publishing /\ Marshal(call'.payload).err = None)
        => /\ sendAttempts' = sendAttempts + 1
           /\ call'.sends = <<ExpectedMessage(call')>>
           /\ call'.up => queue' = Append(queue, ExpectedMessage(call'))]_vars

C11_Witness ==
    /\ call.fn = "PublishReelCommand"
    /\ Len(queue) = 2 /\ sendAttempts = 2
    /\ queue[1].MessageAttributes.runId = [DataType |-> "String", StringValue |-> "run-456"]
    /\ queue[2].MessageAttributes.runId = queue[1].MessageAttributes.runId
    /\ queue[2].MessageBody = "{\"idea\":\"Test reel idea\",\"projectId\":\"proj_123\"}"
    /\ queue[2].QueueUrl = publisher.queueURL

\* C12: when the payload cannot be serialized PublishReelCommand returns
\* an error and makes no SendMessage call; nothing reaches the queue.
C12_UnserializableNotSent ==
    [][(Publishing /\ Marshal(call'.payload).err # None)
        => /\ call'.err # None
           /\ call'.sends = <<>>
           /\ sendAttempts' = sendAttempts
           /\ queue' = queue]_vars

C12_Witness ==
    /\ call.fn = "PublishReelCommand"
    /\ call.payload.kind = "chan"
    /\ call.err # None
    /\ sendAttempts = 0 /\ queue = <<>>

\* C13: when SendMessage fails PublishReelCommand returns that error
\* after one send attempt, and it returns nil exactly when the payload was
\* serialized and the one send succeeded.
C13_SendErrorReturned ==
    [][Publishing
        => /\ (call'.err = None) <=> (Marshal(call'.payload).err = None /\ call'.up)
           /\ (Marshal(call'.payload).err = None /\ ~call'.up)
                => /\ call'.err = SendMessage(FALSE, ExpectedMessage(call'))
                   /\ sendAttempts' = sendAttempts + 1
                   /\ queue' = queue
           /\ sendAttempts' <= sendAttempts + 1]_vars

C13_Witness ==
    /\ call.fn = "PublishReelCommand"
    /\ ~call.up
    /\ call.err = "RequestError: send request failed"
    /\ Len(call.sends) = 1
    /\ sendAttempts = 1 /\ queue = <<>>

(***************************************************************************)
(* The secret loader.                                                      *)
(***************************************************************************)
Loading == call.fn = "LoadFromSecretsManager"

Remote == Getenv(environ, "USE_LOCAL_SECRETS") # "true"

\* the store answers a lookup of id with a value
Found(id) == store.up /\ id \in DOMAIN store.entries

FallbackWarned(n) ==
    \E line \in call.log : line[1] = "Warning: fallback also not found" /\ line[2] = n

\* C14: for each of the five secrets the loader looks up the
\* environment-resolved name first and the base name only if that lookup
\* fails; if both fail the field stays empty, a warning is logged for that
\* secret, and the load returns a bundle without error, also when the store
\* is unreachable
C14_FallbackThenEmpty ==
    (Loading /\ Remote /\ awsConfigOk) =>
      /\ call.err = None
      /\ DOMAIN call.bundle =
           {"api-key", "database-url", "jwt-secret", "oauth-client-id", "oauth-client-secret"}
      /\ \A n \in DOMAIN call.bundle :
           LET resolved == GetSecretName(environ, n) IN
           /\ call.calls[n] = IF Found(resolved) THEN <<resolved>> ELSE <<resolved, n>>
           /\ (~Found(resolved) /\ ~Found(n)) => (call.bundle[n] = "" /\ FallbackWarned(n))

C14_Witness ==
    /\ Loading /\ Remote /\ awsConfigOk
    /\ ~store.up /\ "api-key" \in DOMAIN store.entries
    /\ call.err = None
    /\ call.bundle = EmptySecrets
    /\ call.calls["api-key"] = <<"api-key-dev", "api-key">>
    /\ \A n \in BaseSecretNames : FallbackWarned(n)

\* C15: with the remote store unreachable at startup the secret load fails
\* and the process ends before the server listens, so no request is served
C15_UnreachableStoreFatal ==
    (Remote /\ ~store.up) => (pc # "serving" /\ served = 0)

\* C16: with the local-development flag set the bundle holds exactly the
\* values of the five LOCAL_ variables, no lookup is made in the remote
\* store, and the local-only warning is logged
C16_LocalSecretsOnly ==
    (Loading /\ ~Remote) =>
      /\ call.err = None
      /\ call.bundle =
           [n \in {"api-key", "database-url", "jwt-secret", "oauth-client-id",
                   "oauth-client-secret"} |->
              Getenv(environ,
                CASE n = "api-key" -> "LOCAL_API_KEY"
                  [] n = "database-url" -> "LOCAL_DATABASE_URL"
                  [] n = "jwt-secret" -> "LOCAL_JWT_SECRET"
                  [] n = "oauth-client-id" -> "LOCAL_OAUTH_CLIENT_ID"
                  [] n = "oauth-client-secret" -> "LOCAL_OAUTH_CLIENT_SECRET")]
      /\ \A n \in DOMAIN call.calls : call.calls[n] = <<>>
      /\ <<"WARNING: Loading secrets from environment variables (LOCAL DEVELOPMENT ONLY)">>
           \in call.log

C16_Witness ==
    /\ Loading /\ ~Remote
    /\ store.up /\ "api-key-dev" \in DOMAIN store.entries
    /\ call.bundle["api-key"] = "val-LOCAL_API_KEY"
    /\ call.bundle["oauth-client-id"] = "val-LOCAL_OAUTH_CLIENT_ID"
    /\ call.bundle["oauth-client-secret"] = "val-LOCAL_OAUTH_CLIENT_SECRET"
    /\ call.bundle["jwt-secret"] = "val-LOCAL_JWT_SECRET"

\* the secret string a lookup of id retrieves
RetrievedText(id) ==
    IF store.entries[id] = NilString THEN "" ELSE SecretText(store.entries[id])

\* the retrieved value parses as a JSON object with a field named n
ObjectWithField(id, n) ==
    /\ store.entries[id] # NilString
    /\ UnmarshalMap(store.entries[id]).err = None
    /\ n \in DOMAIN UnmarshalMap(store.entries[id]).map

LabelOf(v) ==
    CASE v \in {"staging", "Staging", "STAGING", "sTaGiNg"} -> "staging"
      [] v \in {"prod", "Prod", "PROD"} -> "prod"
      [] OTHER -> "dev"

C19_EnvironmentOneOfThree ==
    call.fn = "GetCurrentEnvironment" =>
      /\ call.result \in {"dev", "staging", "prod"}
      /\ call.result = LabelOf(Getenv(environ, "ENVIRONMENT"))

C19_Witness ==
    /\ call.fn = "GetCurrentEnvironment"
    /\ Getenv(environ, "ENVIRONMENT") = "PROD"
    /\ call.result = "prod"

\* the variable of key for the environment env
SuffixedName(key, env) ==
    key \o (CASE env = "dev" -> "_DEV" [] env = "staging" -> "_STAGING" [] env = "prod" -> "_PROD")

\* the field of the configuration a key is loaded into
FieldOf(key) ==
    CASE key = "ECS_CLUSTER" -> "EcsCluster"
      [] key = "SQS_QUEUE_URL" -> "SqsQueueURL"
      [] key = "S3_BUCKET" -> "S3Bucket"
      [] key = "CLUSTER_NAME" -> "ClusterName"

C21_StartupOrder ==
    [][/\ pc' # pc =>
            <<pc, pc'>> \in
              { <<"LoadSecrets", "LoadEnvironmentConfig">>,
                <<"LoadEnvironmentConfig", "LoadDefaultConfig">>,
                <<"LoadDefaultConfig", "SetPublisher">>,
                <<"SetPublisher", "ListenAndServe">>,
                <<"ListenAndServe", "serving">>,
                <<"LoadSecrets", "fatal">>,
                <<"LoadDefaultConfig", "fatal">>,
                <<"ListenAndServe", "fatal">> }
       /\ pc # "LoadSecrets" => secrets' = secrets
       /\ pc # "LoadEnvironmentConfig" => envConfig' = envConfig
       /\ pc # "SetPublisher" => publisher' = publisher
       /\ served' # served => (pc = "serving" /\ publisher # NoPublisher)
       /\ (pc = "LoadSecrets" /\ Remote /\ ~awsConfigOk) => pc' \in {pc, "fatal"}
       /\ (pc = "LoadDefaultConfig" /\ ~awsConfigOk) => pc' \in {pc, "fatal"}
       /\ pc = "fatal" => UNCHANGED <<pc, secrets, envConfig, publisher, served, last>>]_vars

C21_Witness ==
    /\ pc = "serving" /\ served = 1
    /\ envConfig.Environment = "staging"
    /\ publisher = [queueURL |-> "url-staging"]

\* C22: every intake request ends in one outcome, 202, 400 or 405; a
\* rejection mints no identifier and attempts no publish; a request is
\* accepted only after its publish step was taken
C22_IntakeStateMachine ==
    [][(Handling /\ last'.req.path = ReelsPath) =>
         /\ last'.resp.status \in {202, 400, 405}
         /\ last'.resp.status \in {400, 405} =>
              (minted' = minted /\ sendAttempts' = sendAttempts)
         /\ last'.resp.status = 202 =>
              (Len(minted') = Len(minted) + 1 /\ sendAttempts' = sendAttempts + 1)]_vars

\* the fixed messages of the handlers, as http.Error writes them
HandlerMessages ==
    {"Method not allowed\n", "Invalid request body\n", "Missing runId\n"}

IsClientError(resp) == resp.status >= 400 /\ resp.status < 500

\* C24 as stated: the body of every 4xx response is one of the three
\* messages of the handlers
C24_ThreeMessagesOnly ==
    (served > 0 /\ IsClientError(last.resp)) => last.resp.text \in HandlerMessages

\* C24: the body of every 4xx response is fixed by the reason of the
\* rejection alone: the three messages of the handlers, and the router's
\* "404 page not found" for a path that is not registered; it is plain
\* text, whatever the request holds, the decoder reports and the secrets are
C24_FixedErrorBodies ==
    (served > 0 /\ IsClientError(last.resp)) =>
      /\ last.resp.contentType = "text/plain; charset=utf-8"
      /\ last.resp.json = NoJSON
      /\ last.resp.text =
           CASE last.resp.status = 405 -> "Method not allowed\n"
             [] last.resp.status = 400 /\ LastWasIntake -> "Invalid request body\n"
             [] last.resp.status = 400 /\ LastWasStatus -> "Missing runId\n"
             [] last.resp.status = 404 -> "404 page not found\n"
             [] OTHER -> "no such response"

C24_Witness ==
    /\ LastWasIntake /\ last.req.method = "POST"
    /\ last.req.body = <<"{", "pid_num", "}">>
    /\ last.log = << <<"Decode error", "type">> >>
    /\ secrets["api-key"] = "k-dev"
    /\ last.resp.status = 400
    /\ last.resp.text = "Invalid request body\n"

\* C27: a POST /reels is answered 400 exactly when its body fails to
\* decode; a body that decodes without a project id, such as the empty
\* object, is answered 202 with a run identifier like a complete request
C27_RequiredFieldsNotValidated ==
    (LastWasIntake /\ last.req.method = "POST") =>
      /\ last.resp.status = 400 <=> Decode(last.req.body).err # None
      /\ last.req.body \in {<<"{", "}">>, <<"null">>} =>
           /\ last.resp.status = 202
           /\ WellFormedRunId(last.resp.json.runId)
           /\ last.resp.json = [NoJSON EXCEPT !.runId = minted[Len(minted)]]

C27_Witness ==
    /\ LastWasIntake /\ last.req.method = "POST"
    /\ last.req.body = <<"{", "}">>
    /\ last.resp.status = 202
    /\ last.log[1][2] = ""

(***************************************************************************)
(* The production deployment script.                                       *)
(***************************************************************************)
\* C25 as stated: no aws command is run unless the line the operator
\* typed is exactly yes
C25_TypedExactlyYes ==
    script.ran # <<>> => script.stdin = <<"y", "e", "s">>

\* C25: no aws command is run unless the answer as read stores it,
\* blanks at its ends trimmed and backslashes removed, is exactly yes; on
\* any other answer, and at the end of input, the script ends with status 1
\* before describe-services, update-service or wait is run
C25_NoAwsWithoutYes ==
    /\ script.ran # <<>> =>
         (script.stdin # <<"EOF">> /\ script.CONFIRM = <<"y", "e", "s">>)
    /\ (script.pc \notin {"read", "confirm"}
          /\ (script.stdin = <<"EOF">> \/ script.CONFIRM # <<"y", "e", "s">>)) =>
         (script.pc = "exited" /\ script.exit = 1 /\ script.ran = <<>>)

C25_Witness ==
    /\ script.stdin = <<"Y", "E", "S">>
    /\ script.pc = "exited" /\ script.exit = 1
    /\ script.echoed = <<"Aborting deployment">>
    /\ script.ran = <<>>

(***************************************************************************)
(* Local-secret mode.                                                      *)
(***************************************************************************)
LocalWarning ==
    <<"WARNING: Loading secrets from environment variables (LOCAL DEVELOPMENT ONLY)">>

\* e2 is the environment e with other values of the LOCAL_ variables
DiffersInLocalOnly(e, e2) ==
    \A n \in (DOMAIN e \cup DOMAIN e2) \
               {"LOCAL_API_KEY", "LOCAL_DATABASE_URL", "LOCAL_JWT_SECRET",
                "LOCAL_OAUTH_CLIENT_ID", "LOCAL_OAUTH_CLIENT_SECRET"} :
       Getenv(e, n) = Getenv(e2, n)

\* C26: the loader is in local mode exactly when USE_LOCAL_SECRETS is
\* true, letter for letter; in every other case a load in an environment
\* that differs in the LOCAL_ variables only returns the same error and the
\* same bundle
C26_LocalOnlyOnTrue ==
    Loading =>
      /\ LocalWarning \in call.log <=> Getenv(environ, "USE_LOCAL_SECRETS") = "true"
      /\ Getenv(environ, "USE_LOCAL_SECRETS") # "true" =>
           /\ awsConfigOk => \A n \in BaseSecretNames : call.calls[n] # <<>>
           /\ \A e2 \in SecretEnvirons :
                DiffersInLocalOnly(environ, e2) =>
                  LET other == LoadFromSecretsManager(e2, awsConfigOk, store) IN
                  other.err = call.err /\ other.bundle = call.bundle

C26_Witness ==
    /\ Loading
    /\ Getenv(environ, "USE_LOCAL_SECRETS") = "TRUE"
    /\ Getenv(environ, "ENVIRONMENT") = ""
    /\ Getenv(environ, "LOCAL_API_KEY") = "val-LOCAL_API_KEY"
    /\ Found("api-key-dev")
    /\ call.bundle["api-key"] = "k-dev"
    /\ ~Found("jwt-secret-dev") /\ ~Found("jwt-secret")
    /\ call.bundle["jwt-secret"] = ""

(***************************************************************************)
(* The loop over the five secrets.                                         *)
(***************************************************************************)
InLoop == call.fn \in {"range baseSecrets", "returned"}

\* C30: each secret is attempted once per load, with at most two lookups
\* (ten in all); the field of a secret holds what loading that secret alone
\* gives, whatever happened to the secrets taken before it, and the bundle
\* returned is the same for every order of the passes
C30_SecretsIndependent ==
    InLoop =>
      /\ \A i, j \in 1..Len(call.attempts) : call.attempts[i] = call.attempts[j] => i = j
      /\ Len(call.attempts) <= 5
      /\ Len(call.lookups) <= 2 * Len(call.attempts)
      /\ \A n \in DOMAIN call.bundle :
           call.bundle[n] =
             IF \E i \in 1..Len(call.attempts) : call.attempts[i] = n
               THEN LoadOneSecret(environ, store, n).value
               ELSE ""
      /\ call.fn = "returned" =>
           /\ {call.attempts[i] : i \in 1..Len(call.attempts)} =
                {"api-key", "database-url", "jwt-secret", "oauth-client-id",
                 "oauth-client-secret"}
           /\ call.bundle = LoadFromSecretsManager(environ, awsConfigOk, store).bundle

C30_Witness ==
    /\ call.fn = "returned"
    /\ store.up /\ DOMAIN store.entries = {"api-key-dev", "database-url"}
    /\ environ = <<>>
    /\ call.attempts[1] = "oauth-client-secret"
    /\ call.attempts[5] = "api-key"
    /\ Len(call.lookups) = 9
    /\ call.bundle["api-key"] = "k-dev"
    /\ call.bundle["database-url"] = "42"

(***************************************************************************)
(* The status handler on every path.                                       *)
(***************************************************************************)
\* C29: GetRunStatus answers every GET request with 200 or 400, for
\* every request path, also one shorter than the prefix "/runs/"; taking
\* the run id out of the path never aborts the handler
C29_StatusAlwaysAnswers ==
    (call.fn = "GetRunStatus" /\ call.req.method = "GET") =>
      (~call.panic /\ call.resp.status \in {200, 400})

(***************************************************************************)
(* Requests in flight.                                                     *)
(***************************************************************************)
\* what the handler of the goroutine g does with the request of g when no
\* other request is in flight
Alone(g) ==
    IF g.kind = "CreateReel"
      THEN CreateReel(g.req, IF g.rnd = <<>> THEN CHOOSE r \in RandomSources : TRUE ELSE g.rnd)
      ELSE GetRunStatus(g.req)

PublishedBy(g) ==
    g.kind = "PublishReelCommand" /\ g.pc = "done" /\ g.err = None

\* C23: in every interleaving a step changes the local variables of one
\* goroutine at most and none of the values the handlers share; a handler
\* that ends has written the response and the log line it writes when its
\* request is handled alone, with the run id of its own uuid.New(); every
\* message on the queue holds the payload and the run id of one publish
C23_StatelessHandlers ==
    [][/\ UNCHANGED <<publisher, secrets, envConfig>>
       /\ Len(inflight') >= Len(inflight)
       /\ Cardinality({i \in DOMAIN inflight : inflight'[i] # inflight[i]}) <= 1
       /\ \A i \in DOMAIN inflight' :
            (inflight'[i].kind \in {"CreateReel", "GetRunStatus"} /\ inflight'[i].pc = "done")
              => /\ inflight'[i].resp = Alone(inflight'[i]).resp
                 /\ inflight'[i].log = Alone(inflight'[i]).log
       /\ \A k \in 1..Len(queue') :
            \E i \in DOMAIN inflight' :
              /\ PublishedBy(inflight'[i])
              /\ queue'[k] = SendMessageInput(publisher.queueURL,
                                              Marshal(inflight'[i].arg.payload).text,
                                              inflight'[i].arg.runID)
       /\ Len(queue') = Cardinality({i \in DOMAIN inflight' : PublishedBy(inflight'[i])})]_vars

C23_Witness ==
    /\ Len(inflight) = 2
    /\ \A i \in {1, 2} :
         /\ inflight[i].kind = "CreateReel" /\ inflight[i].pc = "done"
         /\ inflight[i].resp.status = 202
    /\ inflight[1].runID # inflight[2].runID
    /\ minted = <<inflight[2].runID, inflight[1].runID>>
    /\ issued = <<inflight[1].runID, inflight[2].runID>>

\* C28: the send of PublishReelCommand ends as the queue service decides,
\* also when the client of the request has gone away before or while the
\* send is under way: the goroutine makes its one SendMessage call, and the
\* message is on the queue exactly when the service is up
C28_SendIgnoresCancellation ==
    [][\A i \in DOMAIN inflight :
         (inflight[i].kind = "PublishReelCommand" /\ inflight[i].pc = "send"
            /\ inflight'[i].pc = "done")
           => /\ sendAttempts' = sendAttempts + 1
              /\ inflight'[i].err = IF sqsUp THEN None ELSE "RequestError: send request failed"
              /\ queue' = IF sqsUp
                            THEN Append(queue, SendMessageInput(publisher.queueURL,
                                                                inflight[i].body,
                                                                inflight[i].arg.runID))
                            ELSE queue]_vars

C28_Witness ==
    /\ Len(inflight) >= 1
    /\ inflight[1].kind = "PublishReelCommand" /\ inflight[1].pc = "done"
    /\ inflight[1].cancelled = "send"
    /\ inflight[1].err = None
    /\ Len(queue) = 1
    /\ queue[1].MessageAttributes.runId.StringValue = inflight[1].arg.runID

====
